---- MODULE Spec2Model ----
(***************************************************************************)
(* Model of the tool-calling agent (js/agent.js, js/tools.js): the /chat   *)
(* and /v1/chat/completions orchestration loops, the positional dispatch   *)
(* of tool arguments, the tool registry filter and the file tools.         *)
(***************************************************************************)
EXTENDS Integers, Sequences, FiniteSets, TLC

(***************************************************************************)
(* JavaScript values.  A value is a TLA+ string; the values that are not   *)
(* JS strings carry a leading '#'.                                         *)
(***************************************************************************)
Undef == "#undefined"
JTrue == "#true"
JFalse == "#false"

NonStrings == {Undef, JTrue, JFalse, "#0", "#1", "#2", "#500"}

IsString(v) == v \notin NonStrings

\* JS ToBoolean, as applied by `if (!confirm)` and `dryRun ? .. : ..`
Truthy(v) == v \notin {Undef, JFalse, "", "#0"}

\* JS ToString, as applied by template literals, RegExp() and replace()
ToStr(v) ==
    CASE v = JTrue -> "true"
      [] v = JFalse -> "false"
      [] v = Undef -> "undefined"
      [] v = "#0" -> "0"
      [] v = "#1" -> "1"
      [] v = "#2" -> "2"
      [] v = "#500" -> "500"
      [] OTHER -> v

\* a parameter with a default takes it exactly when the argument is undefined
Default(v, d) == IF v = Undef THEN d ELSE v

\* the i-th positional argument of a call made with the spread values `vals`
Arg(vals, i) == IF i <= Len(vals) THEN vals[i] ELSE Undef

(***************************************************************************)
(* Paths.  A resolved path is the sequence of its segments below "/".      *)
(***************************************************************************)
Cwd == <<"tmp", "ws">>

\* the workspace root of the deployment (AGENT_WORKSPACE, default cwd)
WorkspaceRoot == <<"tmp", "ws">>

\* the segments of a path string, and whether it starts at "/"
ParsePath(s) ==
    CASE s = "/" -> [abs |-> TRUE, segs |-> <<>>]
      [] s = "/tmp" -> [abs |-> TRUE, segs |-> <<"tmp">>]
      [] s = "/tmp/ws" -> [abs |-> TRUE, segs |-> <<"tmp", "ws">>]
      [] s = "/tmp/ws/a.txt" -> [abs |-> TRUE, segs |-> <<"tmp", "ws", "a.txt">>]
      [] s = "/tmp/ws/b.txt" -> [abs |-> TRUE, segs |-> <<"tmp", "ws", "b.txt">>]
      [] s = "/tmp/ws/notes.txt" -> [abs |-> TRUE, segs |-> <<"tmp", "ws", "notes.txt">>]
      [] s = "/tmp/ws/.env" -> [abs |-> TRUE, segs |-> <<"tmp", "ws", ".env">>]
      [] s = "/tmp/ws/id_rsa" -> [abs |-> TRUE, segs |-> <<"tmp", "ws", "id_rsa">>]
      [] s = "/tmp/ws/copy.txt" -> [abs |-> TRUE, segs |-> <<"tmp", "ws", "copy.txt">>]
      [] s = "/tmp/ws2" -> [abs |-> TRUE, segs |-> <<"tmp", "ws2">>]
      [] s = "/etc/notes.txt" -> [abs |-> TRUE, segs |-> <<"etc", "notes.txt">>]
      [] s = "/etc/passwd" -> [abs |-> TRUE, segs |-> <<"etc", "passwd">>]
      [] s = "/etc" -> [abs |-> TRUE, segs |-> <<"etc">>]
      [] s = ".." -> [abs |-> FALSE, segs |-> <<"..">>]
      [] s = "../../etc/passwd" -> [abs |-> FALSE, segs |-> <<"..", "..", "etc", "passwd">>]
      [] s = "" -> [abs |-> FALSE, segs |-> <<>>]
      [] OTHER -> [abs |-> FALSE, segs |-> <<s>>]

RECURSIVE Normalize(_, _)
Normalize(segs, acc) ==
    IF segs = <<>> THEN acc
    ELSE LET h == Head(segs)
             t == Tail(segs)
         IN IF h = "." THEN Normalize(t, acc)
            ELSE IF h = ".."
                 THEN Normalize(t, IF acc = <<>> THEN <<>>
                                   ELSE SubSeq(acc, 1, Len(acc) - 1))
                 ELSE Normalize(t, Append(acc, h))

\* path.resolve(s) for a string s
Resolve(s) ==
    LET p == ParsePath(s)
    IN IF p.abs THEN Normalize(p.segs, <<>>) ELSE Normalize(p.segs, Cwd)

IsPrefix(a, b) == Len(a) <= Len(b) /\ SubSeq(b, 1, Len(a)) = a

InWorkspace(p) == IsPrefix(WorkspaceRoot, p)

Parent(p) == SubSeq(p, 1, Len(p) - 1)

\* the sensitive patterns a path segment contains as a substring
SegPatterns(seg) ==
    CASE seg = ".env" -> {".env"}
      [] seg = ".git" -> {".git"}
      [] seg = "id_rsa" -> {"id_rsa"}
      [] seg = "server.key" -> {".key"}
      [] seg = "cert.pem" -> {".pem"}
      [] seg = "credentials.json" -> {"credentials"}
      [] OTHER -> {}

\* resolvedPath.includes(pattern)
PathIncludes(p, pat) ==
    IF pat = ".git/"
    THEN \E i \in 1..(Len(p) - 1) : ".git" \in SegPatterns(p[i])
    ELSE \E i \in 1..Len(p) : pat \in SegPatterns(p[i])

WriteSensitive == {".env", ".git/", "id_rsa", ".pem", ".key", "credentials"}
ReadSensitive == {".env", "id_rsa", ".pem", ".key", "credentials"}
CriticalPatterns == {".git", ".env", "id_rsa", ".pem", ".key", "credentials"}

(***************************************************************************)
(* The filesystem: a function from the paths that exist to their nodes.    *)
(* The data of a file is a sequence of atoms (characters, or a replacement *)
(* text written as one atom).                                              *)
(***************************************************************************)
DirNode == [kind |-> "dir", data |-> <<>>]
FileNode(d) == [kind |-> "file", data |-> d]

Exists(f, p) == p \in DOMAIN f
IsDir(f, p) == Exists(f, p) /\ f[p].kind = "dir"
IsFile(f, p) == Exists(f, p) /\ f[p].kind = "file"

Prefixes(p) == {SubSeq(p, 1, n) : n \in 0..Len(p)}

\* fs.mkdirSync(dir, {recursive: true}); fails when a component is a file
MkdirOk(f, dir) == \A q \in Prefixes(dir) : ~IsFile(f, q)
Mkdir(f, dir) ==
    [q \in DOMAIN f \cup Prefixes(dir) |-> IF q \in DOMAIN f THEN f[q] ELSE DirNode]

\* fs.writeFileSync(p, d) / fs.copyFileSync(_, p); fails on a directory or
\* when the parent is not a directory
WriteOk(f, p) == p # <<>> /\ IsDir(f, Parent(p)) /\ ~IsDir(f, p)
WriteData(f, p, d) == [q \in DOMAIN f \cup {p} |-> IF q = p THEN FileNode(d) ELSE f[q]]

\* fs.rmSync(p, {recursive: true, force: true}) and fs.unlinkSync(p)
Remove(f, p) == [q \in {r \in DOMAIN f : ~IsPrefix(p, r)} |-> f[q]]

(***************************************************************************)
(* Tool executors (js/tools.js).  An executor maps the positional argument *)
(* values and the filesystem to the filesystem after it and its outcome:   *)
(* out is the returned text, threw says the returned promise rejected,     *)
(* spawned says a subprocess was started and the promise is still pending, *)
(* report is the per-file count list that the text of search_and_replace   *)
(* spells out.                                                             *)
(***************************************************************************)
Ret(f, out) == [f |-> f, out |-> out, threw |-> FALSE, spawned |-> FALSE, report |-> {}]
Throw(f, what) == [f |-> f, out |-> <<what>>, threw |-> TRUE, spawned |-> FALSE, report |-> {}]
Spawn(f) == [f |-> f, out |-> <<>>, threw |-> FALSE, spawned |-> TRUE, report |-> {}]

Atom(s) == IF s = "" THEN <<>> ELSE <<s>>

web_search(vals, f) ==
    LET query == Arg(vals, 1)
    IN IF ~IsString(query)
       THEN Throw(f, "TypeError: query.toLowerCase is not a function")
       ELSE IF query = "weather in london"
            THEN Ret(f, <<"The weather in London is cloudy with a high of 15C.">>)
            ELSE Ret(f, <<"Search results for", query, "are not available in this mock implementation.">>)

\* the number a value compares as; -1 stands for NaN (every comparison false)
NumOf(v) ==
    CASE v = "#0" -> 0
      [] v = "#1" -> 1
      [] v = "#2" -> 2
      [] v = "#500" -> 500
      [] OTHER -> -1

RECURSIVE TakeLines(_, _)
\* lines.slice(0, n).join('\n') of the data split at its "\n" atoms
TakeLines(data, n) ==
    IF n <= 0 \/ data = <<>> THEN <<>>
    ELSE IF Head(data) = "\n"
         THEN IF n = 1 THEN <<>> ELSE <<"\n">> \o TakeLines(Tail(data), n - 1)
         ELSE <<Head(data)>> \o TakeLines(Tail(data), n)

LineCount(data) == 1 + Cardinality({i \in 1..Len(data) : data[i] = "\n"})

read_file(vals, f) ==
    LET filePath == Arg(vals, 1)
        maxLines == Default(Arg(vals, 2), "#500")
    IN IF ~IsString(filePath) THEN Ret(f, <<"Error reading file:", "path must be a string">>)
       ELSE LET p == Resolve(filePath)
            IN IF ~Exists(f, p) THEN Ret(f, <<"Error: File does not exist.", filePath>>)
               ELSE IF ~IsFile(f, p) THEN Ret(f, <<"Error: not a file.", filePath>>)
               ELSE IF \E pat \in ReadSensitive : PathIncludes(p, pat)
                    THEN Ret(f, <<"Error: Cannot read potentially sensitive file", filePath>>)
               ELSE IF NumOf(maxLines) >= 0 /\ LineCount(f[p].data) > NumOf(maxLines)
                    THEN Ret(f, <<"Contents of", filePath>> \o TakeLines(f[p].data, NumOf(maxLines))
                                 \o <<"... (truncated, showing first lines of total)">>)
                    ELSE Ret(f, <<"Contents of", filePath>> \o f[p].data)

write_file(vals, f) ==
    LET filePath == Arg(vals, 1)
        content == Arg(vals, 2)
    IN IF ~IsString(filePath) THEN Ret(f, <<"Error writing file:", "path must be a string">>)
       ELSE LET p == Resolve(filePath)
                dir == Parent(p)
            IN IF \E pat \in WriteSensitive : PathIncludes(p, pat)
               THEN Ret(f, <<"Error: Cannot write to potentially sensitive location", filePath>>)
               ELSE IF p = <<>> THEN Ret(f, <<"Error writing file:", "EISDIR">>)
               ELSE IF ~Exists(f, dir) /\ ~MkdirOk(f, dir)
                    THEN Ret(f, <<"Error writing file:", "ENOTDIR">>)
               ELSE LET f1 == IF Exists(f, dir) THEN f ELSE Mkdir(f, dir)
                    IN IF ~IsString(content)
                       THEN Ret(f1, <<"Error writing file:", "data must be a string">>)
                       ELSE IF ~WriteOk(f1, p)
                            THEN Ret(f1, <<"Error writing file:", "EISDIR or ENOTDIR">>)
                            ELSE Ret(WriteData(f1, p, Atom(content)),
                                     <<"Successfully wrote characters to", filePath>>)

\* the first atom equal to old is replaced (String.prototype.replace with a string)
ReplaceFirst(data, old, new) ==
    LET i == CHOOSE k \in 1..Len(data) :
                 data[k] = old /\ \A j \in 1..(k - 1) : data[j] # old
    IN SubSeq(data, 1, i - 1) \o Atom(new) \o SubSeq(data, i + 1, Len(data))

edit_file(vals, f) ==
    LET filePath == Arg(vals, 1)
        oldText == ToStr(Arg(vals, 2))
        newText == ToStr(Arg(vals, 3))
    IN IF ~IsString(filePath) THEN Ret(f, <<"Error editing file:", "path must be a string">>)
       ELSE LET p == Resolve(filePath)
            IN IF ~Exists(f, p) THEN Ret(f, <<"Error: File does not exist.", filePath>>)
               ELSE IF \E pat \in WriteSensitive : PathIncludes(p, pat)
                    THEN Ret(f, <<"Error: Cannot edit potentially sensitive file", filePath>>)
               ELSE IF IsDir(f, p) THEN Ret(f, <<"Error editing file:", "EISDIR">>)
               ELSE IF oldText = ""
                    THEN Ret(WriteData(f, p, Atom(newText) \o f[p].data),
                             <<"Successfully edited", filePath>>)
               ELSE IF ~\E k \in 1..Len(f[p].data) : f[p].data[k] = oldText
                    THEN Ret(f, <<"Error: Text to replace not found in", filePath>>)
                    ELSE Ret(WriteData(f, p, ReplaceFirst(f[p].data, oldText, newText)),
                             <<"Successfully edited", filePath>>)

\* variant: only the root itself counts as root-level
RootLevelOnlyRoot(p) == Len(p) + 1 <= 1

\* parts.length <= 2, parts being the resolved path split at the separator:
\* one empty part before the leading separator and one part per segment
RootLevel(p) == Len(p) + 1 <= 2

delete_file(vals, f) ==
    LET filePath == Arg(vals, 1)
        confirm == Default(Arg(vals, 2), JFalse)
    IN IF ~Truthy(confirm)
       THEN Ret(f, <<"Error: Must set confirm=True to delete files. This is a safety measure.">>)
       ELSE IF ~IsString(filePath) THEN Ret(f, <<"Error deleting file:", "path must be a string">>)
       ELSE LET p == Resolve(filePath)
            IN IF ~Exists(f, p) THEN Ret(f, <<"Error: Path does not exist.", filePath>>)
               ELSE IF \E pat \in CriticalPatterns : PathIncludes(p, pat)
                    THEN Ret(f, <<"Error: Cannot delete sensitive path", filePath>>)
               ELSE IF RootLevel(p)
                    THEN Ret(f, <<"Error: Cannot delete root-level path for safety.", filePath>>)
               ELSE IF IsDir(f, p)
                    THEN Ret(Remove(f, p), <<"Successfully deleted directory", filePath>>)
                    ELSE Ret(Remove(f, p), <<"Successfully deleted file", filePath>>)

Children(f, dir) == {q \in DOMAIN f : Len(q) = Len(dir) + 1 /\ IsPrefix(dir, q)}

RECURSIVE copyRecursive(_, _, _)
RECURSIVE CopyItems(_, _, _, _)
\* the loop over fs.readdirSync(src); the order of the entries is the
\* directory order of the platform, here the order CHOOSE fixes
CopyItems(f, items, src, dest) ==
    IF items = {} THEN Ret(f, <<>>)
    ELSE LET q == CHOOSE x \in items : TRUE
             d == Append(dest, q[Len(q)])
             r == IF IsDir(f, q) THEN copyRecursive(f, q, d)
                  ELSE IF WriteOk(f, d) THEN Ret(WriteData(f, d, f[q].data), <<>>)
                       ELSE Throw(f, "EISDIR or ENOTDIR")
         IN IF r.threw THEN r ELSE CopyItems(r.f, items \ {q}, src, dest)

\* a destination inside the source makes the recursion descend into its own
\* output until the path is too long; the model stops it at the first level
copyRecursive(f, src, dest) ==
    IF ~Exists(f, dest) /\ ~MkdirOk(f, dest) THEN Throw(f, "ENOTDIR")
    ELSE LET f1 == IF Exists(f, dest) THEN f ELSE Mkdir(f, dest)
         IN IF IsPrefix(src, dest) THEN Throw(f1, "ENAMETOOLONG")
            ELSE CopyItems(f1, Children(f1, src), src, dest)

copy_file(vals, f) ==
    LET source == Arg(vals, 1)
        destination == Arg(vals, 2)
    IN IF ~IsString(source) \/ ~IsString(destination)
       THEN Ret(f, <<"Error copying file:", "path must be a string">>)
       ELSE LET sp == Resolve(source)
                dp == Resolve(destination)
            IN IF ~Exists(f, sp) THEN Ret(f, <<"Error: Source does not exist.", source>>)
               ELSE IF \E pat \in WriteSensitive : PathIncludes(dp, pat)
                    THEN Ret(f, <<"Error: Cannot copy to sensitive location", destination>>)
               ELSE IF IsDir(f, sp)
                    THEN LET r == copyRecursive(f, sp, dp)
                         IN IF r.threw THEN Ret(r.f, <<"Error copying file:">> \o r.out)
                            ELSE Ret(r.f, <<"Successfully copied directory", source, destination>>)
               ELSE IF dp = <<>> THEN Ret(f, <<"Error copying file:", "EISDIR">>)
               ELSE IF ~Exists(f, Parent(dp)) /\ ~MkdirOk(f, Parent(dp))
                    THEN Ret(f, <<"Error copying file:", "ENOTDIR">>)
               ELSE LET f1 == IF Exists(f, Parent(dp)) THEN f ELSE Mkdir(f, Parent(dp))
                    IN IF ~WriteOk(f1, dp)
                       THEN Ret(f1, <<"Error copying file:", "EISDIR or ENOTDIR">>)
                       ELSE Ret(WriteData(f1, dp, f[sp].data),
                                <<"Successfully copied file", source, destination>>)

\* fs.renameSync(sp, dp) succeeds
RenameOk(f, sp, dp) ==
    /\ dp # <<>>
    /\ IsDir(f, Parent(dp))
    /\ \/ sp = dp
       \/ /\ ~IsPrefix(sp, dp)
          /\ IF IsDir(f, sp)
             THEN ~IsFile(f, dp) /\ Children(f, dp) = {}
             ELSE ~IsDir(f, dp)

Rename(f, sp, dp) ==
    IF sp = dp THEN f
    ELSE LET kept == {q \in DOMAIN f : ~IsPrefix(sp, q) /\ ~IsPrefix(dp, q)}
             moved == {dp \o SubSeq(q, Len(sp) + 1, Len(q)) : q \in {r \in DOMAIN f : IsPrefix(sp, r)}}
         IN [q \in kept \cup moved |->
                IF q \in moved THEN f[sp \o SubSeq(q, Len(dp) + 1, Len(q))] ELSE f[q]]

move_file(vals, f) ==
    LET source == Arg(vals, 1)
        destination == Arg(vals, 2)
    IN IF ~IsString(source) \/ ~IsString(destination)
       THEN Ret(f, <<"Error moving file:", "path must be a string">>)
       ELSE LET sp == Resolve(source)
                dp == Resolve(destination)
            IN IF ~Exists(f, sp) THEN Ret(f, <<"Error: Source does not exist.", source>>)
               ELSE IF \E pat \in WriteSensitive : PathIncludes(sp, pat)
                    THEN Ret(f, <<"Error: Cannot move sensitive file", source>>)
               ELSE IF \E pat \in WriteSensitive : PathIncludes(dp, pat)
                    THEN Ret(f, <<"Error: Cannot move to sensitive location", destination>>)
               ELSE IF dp = <<>> THEN Ret(f, <<"Error moving file:", "EBUSY">>)
               ELSE IF ~Exists(f, Parent(dp)) /\ ~MkdirOk(f, Parent(dp))
                    THEN Ret(f, <<"Error moving file:", "ENOTDIR">>)
               ELSE LET f1 == IF Exists(f, Parent(dp)) THEN f ELSE Mkdir(f, Parent(dp))
                    IN IF ~RenameOk(f1, sp, dp)
                       THEN Ret(f1, <<"Error moving file:", "rename failed">>)
                       ELSE Ret(Rename(f1, sp, dp), <<"Successfully moved", source, destination>>)

IgnoreDirs == {".git", "__pycache__", "node_modules", ".venv", "venv", "dist", "build"}

\* item.match(/\.(pyc|so|dll|exe|jpg|png|gif|pdf)$/)
BinaryName(seg) == seg \in {"logo.png", "mod.pyc", "doc.pdf"}

\* new RegExp(pattern, 'g'): undefined and "" give the empty pattern, "."
\* matches any character but a newline, "*" is a syntax error, any other
\* pattern of the model is a literal
RegexKind(pattern) ==
    CASE pattern = Undef \/ pattern = "" -> "empty"
      [] pattern = "*" -> "invalid"
      [] pattern = "." -> "any"
      [] OTHER -> "literal"

AtomMatches(pattern, a) ==
    CASE RegexKind(pattern) = "literal" -> a = ToStr(pattern)
      [] RegexKind(pattern) = "any" -> a # "\n"
      [] OTHER -> FALSE

\* (content.match(regex) || []).length; a match never spans two atoms
MatchCount(pattern, data) ==
    CASE RegexKind(pattern) = "empty" -> Len(data) + 1
      [] RegexKind(pattern) = "invalid" -> 0
      [] OTHER -> Cardinality({i \in 1..Len(data) : AtomMatches(pattern, data[i])})

RECURSIVE SearchFiles(_, _, _)
\* the result lines of the files searchInDir reads, in directory order
\* (the order CHOOSE fixes); a file of the model holds one line, its data
SearchFiles(f, files, pattern) ==
    IF files = {} THEN <<>>
    ELSE LET q == CHOOSE x \in files : TRUE
         IN (IF RegexKind(pattern) = "empty"
                   \/ \E k \in 1..Len(f[q].data) : AtomMatches(pattern, f[q].data[k])
                THEN f[q].data ELSE <<>>)
            \o SearchFiles(f, files \ {q}, pattern)

\* the files searchInDir(root) reaches and reads
Searched(f, root) ==
    {q \in DOMAIN f :
        /\ IsFile(f, q)
        /\ IsPrefix(root, q)
        /\ q # root
        /\ \A i \in (Len(root) + 1)..(Len(q) - 1) : q[i] \notin IgnoreDirs
        /\ ~BinaryName(q[Len(q)])
        /\ ~PathIncludes(q, ".env")
        /\ ~PathIncludes(q, ".key")}

search_code(vals, f) ==
    LET pattern == Arg(vals, 1)
        searchPath == Default(Arg(vals, 2), ".")
    IN IF ~IsString(searchPath)
       THEN Ret(f, <<"Error searching code:", "path must be a string">>)
       ELSE IF ~Exists(f, Resolve(searchPath))
            THEN Ret(f, <<"Error: Path does not exist.", searchPath>>)
       ELSE IF ~IsDir(f, Resolve(searchPath))
            THEN Ret(f, <<"Error searching code:", "ENOTDIR">>)
       ELSE IF SearchFiles(f, Searched(f, Resolve(searchPath)), pattern) = <<>>
            THEN Ret(f, <<"No matches found for pattern", ToStr(pattern)>>)
            ELSE Ret(f, SearchFiles(f, Searched(f, Resolve(searchPath)), pattern))

RECURSIVE ReplaceAll(_, _, _)
\* content.replace(regex, replacement)
ReplaceAll(pattern, replacement, data) ==
    LET r == Atom(ToStr(replacement))
    IN IF RegexKind(pattern) = "empty"
       THEN IF data = <<>> THEN r
            ELSE r \o <<Head(data)>> \o ReplaceAll(pattern, replacement, Tail(data))
       ELSE IF data = <<>> THEN <<>>
            ELSE (IF AtomMatches(pattern, Head(data)) THEN r ELSE <<Head(data)>>)
                 \o ReplaceAll(pattern, replacement, Tail(data))

\* the files processDir(root) reaches and does not skip
Processed(f, root) ==
    {q \in DOMAIN f :
        /\ IsFile(f, q)
        /\ IsPrefix(root, q)
        /\ q # root
        /\ \A i \in (Len(root) + 1)..(Len(q) - 1) : q[i] \notin IgnoreDirs
        /\ ~BinaryName(q[Len(q)])
        /\ ~PathIncludes(q, ".env")
        /\ ~PathIncludes(q, ".key")}

search_and_replace(vals, f) ==
    LET pattern == Arg(vals, 1)
        replacement == Arg(vals, 2)
        searchPath == Default(Arg(vals, 3), ".")
        filePattern == Default(Arg(vals, 4), "*")
        dryRun == Default(Arg(vals, 5), JTrue)
    IN IF ~IsString(searchPath)
       THEN Ret(f, <<"Error in search and replace:", "path must be a string">>)
       ELSE LET root == Resolve(searchPath)
                hit == {q \in Processed(f, root) : MatchCount(pattern, f[q].data) > 0}
                report == {<<q, MatchCount(pattern, f[q].data)>> : q \in hit}
                f1 == IF Truthy(dryRun) THEN f
                      ELSE [q \in DOMAIN f |->
                               IF q \in hit
                               THEN FileNode(ReplaceAll(pattern, replacement, f[q].data))
                               ELSE f[q]]
            IN IF ~Exists(f, root)
               THEN Ret(f, <<"Error: Path does not exist.", searchPath>>)
               ELSE IF ~IsDir(f, root)
                    THEN Ret(f, <<"Error in search and replace:", "ENOTDIR">>)
               ELSE IF hit = {}
                    THEN Ret(f, <<"No matches found for pattern", ToStr(pattern)>>)
               ELSE [f |-> f1,
                     out |-> IF Truthy(dryRun) THEN <<"[DRY RUN] Found match(es) in file(s)">>
                             ELSE <<"Found match(es) in file(s)">>,
                     threw |-> FALSE, spawned |-> FALSE, report |-> report]

\* the characters of the command and script texts used as inputs
CommandChars(s) ==
    CASE s = "git status" -> <<"g", "i", "t", " ", "s", "t", "a", "t", "u", "s">>
      [] s = "/usr/bin/git status" -> <<"/", "u", "s", "r", "/", "b", "i", "n", "/", "g", "i", "t", " ", "s", "t", "a", "t", "u", "s">>
      [] s = "sleep 100" -> <<"s", "l", "e", "e", "p", " ", "1", "0", "0">>
      [] s = "sleep 100 >/dev/null 2>&1" -> <<"s", "l", "e", "e", "p", " ", "1", "0", "0", " ", ">", "/", "d", "e", "v", "/", "n", "u", "l", "l", " ", "2", ">", "&", "1">>
      [] s = "rm -rf /" -> <<"r", "m", " ", "-", "r", "f", " ", "/">>
      [] s = "sudo RM -RF /tmp/ws" -> <<"s", "u", "d", "o", " ", "R", "M", " ", "-", "R", "F", " ", "/", "t", "m", "p", "/", "w", "s">>
      [] s = "sudo rm -rf /tmp/ws" -> <<"s", "u", "d", "o", " ", "r", "m", " ", "-", "r", "f", " ", "/", "t", "m", "p", "/", "w", "s">>
      [] s = "mkfs /dev/sda" -> <<"m", "k", "f", "s", " ", "/", "d", "e", "v", "/", "s", "d", "a">>
      [] s = "echo fork bomb" -> <<"e", "c", "h", "o", " ", "f", "o", "r", "k", " ", "b", "o", "m", "b">>
      [] s = "rm  -rf /" -> <<"r", "m", " ", " ", "-", "r", "f", " ", "/">>
      [] OTHER -> <<>>

UpperCase == <<"A", "B", "C", "D", "E", "F", "G", "H", "I", "J", "K", "L", "M", "N", "O", "P", "Q", "R", "S", "T", "U", "V", "W", "X", "Y", "Z">>
LowerCase == <<"a", "b", "c", "d", "e", "f", "g", "h", "i", "j", "k", "l", "m", "n", "o", "p", "q", "r", "s", "t", "u", "v", "w", "x", "y", "z">>

\* String.prototype.toLowerCase, character by character
toLowerCase(cs) ==
    [k \in 1..Len(cs) |->
        IF \E j \in 1..Len(UpperCase) : UpperCase[j] = cs[k]
        THEN LowerCase[CHOOSE j \in 1..Len(UpperCase) : UpperCase[j] = cs[k]]
        ELSE cs[k]]

\* String.prototype.includes
Includes(cs, pattern) ==
    \E k \in 1..(Len(cs) - Len(pattern) + 1) : SubSeq(cs, k, k + Len(pattern) - 1) = pattern

\* dangerousPatterns of bash_command and of bash_script
dangerousPatterns(tool) ==
    {<<"r", "m", " ", "-", "r", "f", " ", "/">>, <<"m", "k", "f", "s">>, <<"d", "d", " ", "i", "f", "=">>,
     <<":", "(", ")", "{", ":", "|", ":", "&", "}", ";", ":">>}
        \cup (IF tool = "bash_command" THEN {<<"f", "o", "r", "k", " ", "b", "o", "m", "b">>} ELSE {})

\* dangerousPatterns.some(pattern => command.toLowerCase().includes(pattern))
DangerousCommand(command) ==
    \E pattern \in dangerousPatterns("bash_command") :
        Includes(toLowerCase(CommandChars(command)), pattern)

DangerousScript(scriptContent) ==
    \E pattern \in dangerousPatterns("bash_script") :
        Includes(toLowerCase(CommandChars(scriptContent)), pattern)

bash_command(vals, f) ==
    LET command == Arg(vals, 1)
    IN IF ~IsString(command)
       THEN Ret(f, <<"Error executing command:", "command.toLowerCase is not a function">>)
       ELSE IF DangerousCommand(command)
            THEN Ret(f, <<"Error: Command contains potentially dangerous pattern and was blocked.">>)
            ELSE Spawn(f)

\* path.join(os.tmpdir(), `script-${Date.now()}.sh`)
ScriptPath == <<"tmp", "script.sh">>

\* variant: the script is written and run without the pattern check
bash_scriptUnchecked(vals, f) ==
    LET scriptContent == Arg(vals, 1)
    IN IF ~IsString(scriptContent)
       THEN Ret(f, <<"Error executing script:", "scriptContent.toLowerCase is not a function">>)
       ELSE IF ~WriteOk(f, ScriptPath)
            THEN Ret(f, <<"Error executing script:", "EISDIR">>)
            ELSE Spawn(WriteData(f, ScriptPath, <<scriptContent>>))

\* bash_script up to its await: the check, the temporary file, the spawn
bash_script(vals, f) ==
    LET scriptContent == Arg(vals, 1)
    IN IF ~IsString(scriptContent)
       THEN Ret(f, <<"Error executing script:", "scriptContent.toLowerCase is not a function">>)
       ELSE IF DangerousScript(scriptContent)
            THEN Ret(f, <<"Error: Script contains potentially dangerous pattern and was blocked.">>)
            ELSE IF ~WriteOk(f, ScriptPath)
                 THEN Ret(f, <<"Error executing script:", "EISDIR">>)
                 ELSE Spawn(WriteData(f, ScriptPath, <<scriptContent>>))

\* what the promise of a spawned bash_command resolves to when the
\* subprocess ends, normally or with an error
BashOutcomes(command) == {<<"STDOUT:", command>>, <<"Error executing command:", command>>}

(***************************************************************************)
(* The registry (js/tools.js, TOOLS) and its filter.                       *)
(***************************************************************************)
Range(s) == {s[i] : i \in 1..Len(s)}

\* the keys of TOOLS, in definition order
TOOLS ==
    <<"web_search", "calculator", "explore_project", "read_file", "write_file",
      "bash_command", "bash_script", "search_code", "edit_file", "find_files",
      "git_status", "git_diff", "git_commit", "git_add", "git_log", "git_branch",
      "search_and_replace", "copy_file", "move_file", "delete_file",
      "install_package", "run_tests", "http_request", "lint_code", "format_code",
      "list_directory", "get_file_info", "build_project", "browser_navigate",
      "browser_screenshot", "browser_click", "browser_type", "browser_get_text",
      "browser_evaluate", "browser_wait_for", "browser_fill_form",
      "browser_get_url", "browser_go_back", "browser_close">>

\* null, as a value of ALLOWED_TOOLS_LIST
NullList == <<"#null">>

\* an unset environment variable
Unset == <<Undef>>

RECURSIVE SplitAcc(_, _, _)
SplitAcc(rest, cur, acc) ==
    IF rest = <<>> THEN Append(acc, cur)
    ELSE IF Head(rest) = "," THEN SplitAcc(Tail(rest), "", Append(acc, cur))
         ELSE SplitAcc(Tail(rest), Head(rest), acc)

\* ALLOWED_TOOLS_CSV ? ALLOWED_TOOLS_CSV.split(',') : null, for a value given
\* as its sequence of fields and "," separators
ALLOWED_TOOLS_LIST(csv) ==
    IF csv = Unset \/ csv = <<>> THEN NullList ELSE SplitAcc(csv, "", <<>>)

IsAllowedName(allowedTools, name) == name \in Range(allowedTools)

\* variant: the allowed list is ignored
getFilteredToolsUnfiltered(allowedTools) == TOOLS

getFilteredTools(allowedTools) ==
    IF allowedTools = NullList THEN TOOLS
    ELSE SelectSeq(TOOLS, LAMBDA name : IsAllowedName(allowedTools, name))

\* a tool definition is identified by the name it declares
getToolDefinitions(tools) == tools

\* properties every object inherits from Object.prototype
ObjectPrototypeKeys == {"constructor", "toString", "valueOf", "hasOwnProperty", "__proto__"}

\* AVAILABLE_TOOLS[toolName]: the registry entry, an inherited property
\* (truthy, without an execute function) or undefined
Lookup(avail, toolName) ==
    IF toolName \in Range(avail) THEN "tool"
    ELSE IF toolName \in ObjectPrototypeKeys THEN "inherited"
         ELSE "undefined"

Execute(name, vals, f) ==
    CASE name = "web_search" -> web_search(vals, f)
      [] name = "read_file" -> read_file(vals, f)
      [] name = "write_file" -> write_file(vals, f)
      [] name = "bash_command" -> bash_command(vals, f)
      [] name = "bash_script" -> bash_script(vals, f)
      [] name = "search_code" -> search_code(vals, f)
      [] name = "edit_file" -> edit_file(vals, f)
      [] name = "search_and_replace" -> search_and_replace(vals, f)
      [] name = "copy_file" -> copy_file(vals, f)
      [] name = "move_file" -> move_file(vals, f)
      [] name = "delete_file" -> delete_file(vals, f)

\* Object.values(args) for the parsed arguments, in key order
ObjectValues(pairs) == [i \in 1..Len(pairs) |-> pairs[i][2]]

\* the arguments text of a tool call: malformed JSON, or a JSON object
\* given by its key/value pairs in the order they are written
Malformed == [ok |-> FALSE, pairs |-> <<>>]
Obj(pairs) == [ok |-> TRUE, pairs |-> pairs]

ToolCall(id, name, arguments) == [id |-> id, name |-> name, arguments |-> arguments]

\* the executor of the call runs: the lookup found a registry entry and
\* JSON.parse returned
Runs(avail, call) == Lookup(avail, call.name) = "tool" /\ call.arguments.ok

\* one callback of responseMessage.tool_calls.map, up to its first
\* suspension (agent.js 96-123)
RunToolCall(avail, call, f) ==
    IF Lookup(avail, call.name) = "undefined"
    THEN Ret(f, <<"Error: Tool", call.name, "not found.">>)
    ELSE IF ~call.arguments.ok
         THEN Throw(f, "SyntaxError: JSON.parse")
         ELSE IF Lookup(avail, call.name) = "inherited"
              THEN Throw(f, "TypeError: tool.execute is not a function")
              ELSE Execute(call.name, ObjectValues(call.arguments.pairs), f)

(***************************************************************************)
(* The orchestrator (js/agent.js).                                         *)
(***************************************************************************)
MAX_TOOL_CALLS == 5

SYSTEM_PROMPT == <<"You are a helpful AI assistant.">>

\* bounds of the model
MaxCallsPerRound == 2
MaxHistory == 1

NoId == <<>>

Msg(role, content) ==
    [role |-> role, content |-> content, tool_calls |-> <<>>, tool_call_id |-> NoId, name |-> ""]

\* the assistant message of a completion that requests tools
AssistantCalls(tcs) ==
    [role |-> "assistant", content |-> <<>>, tool_calls |-> tcs, tool_call_id |-> NoId, name |-> ""]

\* the object both return statements of the map callback build
ToolResultTagged(id, toolName, content) ==
    [role |-> "tool", content |-> content, tool_calls |-> <<>>, tool_call_id |-> id, name |-> toolName]

\* variant: every result of a round is tagged with the id of the round's first call
ToolResultFirstId(call, content) == ToolResultTagged(<<call.id[1], 1>>, call.name, content)

ToolResult(call, content) == ToolResultTagged(call.id, call.name, content)

\* promises of the map callbacks
Pending == [state |-> "pending", value |-> Msg("none", <<>>)]
Fulfilled(m) == [state |-> "fulfilled", value |-> m]
Rejected(what) == [state |-> "rejected", value |-> Msg("error", what)]

\* the promise of one callback, given what its run up to the first
\* suspension did
PromiseOf(call, r) ==
    IF r.threw THEN Rejected(r.out)
    ELSE IF r.spawned THEN Pending
         ELSE Fulfilled(ToolResult(call, r.out))

\* the invocation that returned during the run of the callback, if it did
ReturnedOf(call, r) == IF r.threw \/ r.spawned THEN <<>> ELSE <<<<call.id, r.out>>>>

RECURSIVE DispatchAll(_, _, _, _)
RECURSIVE DispatchNext(_, _, _, _)
\* responseMessage.tool_calls.map(async toolCall => ...): the callbacks run
\* one after the other, each up to its first suspension
DispatchAll(avail, calls, f, acc) ==
    IF calls = <<>> THEN [f |-> f, promises |-> acc, returned |-> <<>>]
    ELSE DispatchNext(avail, calls, acc, RunToolCall(avail, Head(calls), f))

\* the rest of the map after the first callback of calls ran with outcome r
DispatchNext(avail, calls, acc, r) ==
    [DispatchAll(avail, Tail(calls), r.f, Append(acc, PromiseOf(Head(calls), r)))
        EXCEPT !.returned = ReturnedOf(Head(calls), r) \o @]

\* the shapes of tool call a provider response is built from
CallWeather == [name |-> "web_search", arguments |-> Obj(<<<<"query", "weather in london">>>>)]
CallBadJson == [name |-> "web_search", arguments |-> Malformed]
CallNoQuery == [name |-> "web_search", arguments |-> Obj(<<>>)]
CallGit == [name |-> "bash_command", arguments |-> Obj(<<<<"command", "git status">>>>)]
CallSleep == [name |-> "bash_command", arguments |-> Obj(<<<<"command", "sleep 100">>>>)]
CallConstructor == [name |-> "constructor", arguments |-> Obj(<<>>)]
CallUnknown == [name |-> "no_such_tool", arguments |-> Obj(<<>>)]
CallDeleteForce ==
    [name |-> "delete_file",
     arguments |-> Obj(<<<<"path", "/tmp/ws/a.txt">>, <<"force", JTrue>>>>)]

\* the tool-call lists a provider response may carry
ProviderToolCalls ==
    {r \in {<<CallGit, CallSleep>>, <<CallUnknown, CallWeather>>, <<CallDeleteForce>>,
            <<CallBadJson, CallSleep>>, <<CallConstructor>>, <<CallNoQuery>>,
            <<CallUnknown, CallGit, CallConstructor>>} : Len(r) <= MaxCallsPerRound}

\* the provider gives every call of a response its own id
WithIds(round, shapes) ==
    [i \in 1..Len(shapes) |-> ToolCall(<<round, i>>, shapes[i].name, shapes[i].arguments)]

\* histories a caller may supply with /chat
StrayTool == ToolResultTagged(<<0, 1>>, "web_search", <<"earlier result">>)
Histories == {h \in {<<>>, <<StrayTool>>, <<Msg("user", <<"earlier">>), StrayTool>>} : Len(h) <= MaxHistory}

\* values of the ALLOWED_TOOLS environment variable
AllowedCsvs ==
    {Unset, <<>>, <<"web_search", ",", "bash_command", ",", " delete_file">>}

\* a tools list a caller may supply with /v1/chat/completions
CallerTools == <<"delete_file", "write_file">>

InitFs ==
    LET dirs == {<<>>, <<"etc">>, <<"tmp">>, <<"tmp", "ws">>}
    IN [q \in dirs \cup {<<"etc", "passwd">>, <<"tmp", "ws", "a.txt">>, <<"tmp", "ws", "b.txt">>,
                         <<"tmp", "ws", ".env">>, <<"tmp", "ws", "id_rsa">>} |->
           IF q \in dirs THEN DirNode
           ELSE IF q = <<"tmp", "ws", "a.txt">> THEN FileNode(<<"a", "b", "a">>)
           ELSE IF q = <<"tmp", "ws", "b.txt">> THEN FileNode(<<"b">>)
           ELSE IF q = <<"tmp", "ws", ".env">> THEN FileNode(<<"a", "API_KEY=1">>)
           ELSE IF q = <<"tmp", "ws", "id_rsa">> THEN FileNode(<<"PRIVATE KEY">>)
           ELSE FileNode(<<"r">>)]

NoResponse == [status |-> 0, error |-> <<>>, text |-> <<>>, history |-> <<>>]
ErrorResponse(status, error) == [status |-> status, error |-> error, text |-> <<>>, history |-> <<>>]
OkResponse(text, history) == [status |-> 200, error |-> <<>>, text |-> text, history |-> history]

(***************************************************************************)
(* The provider adapters (js/llm.js).                                      *)
(***************************************************************************)
\* the keys of PROVIDERS
PROVIDERS == {"openai", "xai", "groq", "claude", "gemini"}

\* the adapters that return the vendor's completion as it is
PassThrough == {"xai"}

\* the adapters that take the system prompt out of the array they are given
ShiftsSystem == {"claude", "gemini"}

\* a vendor completion: the text and the tool calls of its message
VendorCompletion(content, toolCalls) == [content |-> content, tool_calls |-> toolCalls]

\* choices[0].message of what chatCompletion returns for a vendor completion
NormalizedMessage(name, completion) ==
    [role |-> "assistant", content |-> completion.content,
     tool_calls |-> IF name \in PassThrough THEN completion.tool_calls ELSE <<>>,
     tool_call_id |-> NoId, name |-> ""]

\* the messages array after the part of chatCompletion that runs before the
\* vendor request: messages.shift() when the first message is the system one
AfterShift(name, msgs) ==
    IF name \in ShiftsSystem /\ msgs # <<>> /\ msgs[1].role = "system"
    THEN Tail(msgs) ELSE msgs

NoCompletion == [vendor |-> VendorCompletion(<<>>, <<>>), message |-> Msg("none", <<>>)]

NoBody == [message |-> Undef, history |-> <<>>]

\* the null of the browser handles; a browser and its page are numbered from 1
Null == 0

VARIABLES
    allowedCsv,     \* process.env.ALLOWED_TOOLS
    avail,          \* AVAILABLE_TOOLS, the keys of the filtered registry
    fs,             \* the filesystem
    pc,             \* where the request handler is
    endpoint,       \* "chat" or "v1"
    messages,       \* the transcript (messages / workingMessages)
    baseLen,        \* its length when the loop starts
    toolCallCount,
    completions,    \* number of chatCompletion calls made
    offered,        \* the tools passed to the last chatCompletion call
    calls,          \* tool_calls of the round being executed
    promises,       \* toolPromises of that round
    response,       \* the HTTP response sent
    executed,       \* names of the executors that were run
    conversations,  \* conversations["default"]
    reqTools,       \* the tools field of the /v1/chat/completions request body
    produced,       \* <<id, text>> of every invocation that returned
    returnOrder,    \* ids of the invocations of the latest round, in the order they returned
    lastOp,         \* the last direct tool invocation and its outcome
    provider,       \* process.env.PROVIDER, the adapter getLlm built
    body,           \* message and history of the /chat request body
    lastCompletion, \* the vendor's last completion and the adapter's normalized message
    browserInstance,\* _browserInstance
    browserPage,    \* _browserPage
    liveBrowsers,   \* the browsers launched and not closed
    task,           \* the browser tool invocations and where each one is
    procs,          \* the processes running on the host
    sh,             \* the bash_command / bash_script invocation and where it is
    reqs,           \* the /chat requests in flight together, in the order received
    log,            \* the requests answered, in the order answered
    capture,        \* the invocations of the capped tools: what was produced and returned
    scripts,        \* the bash_script invocations in flight together
    clock           \* Date.now()

vars == <<allowedCsv, avail, fs, pc, endpoint, messages, baseLen, toolCallCount,
          completions, offered, calls, promises, response, executed, conversations,
          reqTools, produced, returnOrder, lastOp, provider, body, lastCompletion,
          browserInstance, browserPage, liveBrowsers, task, procs, sh, reqs, log,
          capture, scripts, clock>>

sessionVars == <<browserInstance, browserPage, liveBrowsers, task>>
shellVars == <<procs, sh>>
concVars == <<reqs, log, capture, scripts, clock>>
extVars == <<sessionVars, shellVars, concVars>>

\* the browser session and the host's processes before any tool ran
ExtInit ==
    /\ browserInstance = Null
    /\ browserPage = Null
    /\ liveBrowsers = {}
    /\ task = <<>>
    /\ procs = {}
    /\ sh = <<>>
    /\ reqs = <<>>
    /\ log = <<>>
    /\ capture = <<>>
    /\ scripts = <<>>
    /\ clock = 0

NoOp == [n |-> 0, call |-> ToolCall(NoId, "", Obj(<<>>)), before |-> <<>>, out |-> <<>>,
         threw |-> FALSE, report |-> {}]

Init ==
    /\ allowedCsv \in AllowedCsvs
    /\ avail = getFilteredTools(ALLOWED_TOOLS_LIST(allowedCsv))
    /\ fs = InitFs
    /\ pc = "idle"
    /\ endpoint = "none"
    /\ messages = <<>>
    /\ baseLen = 0
    /\ toolCallCount = 0
    /\ completions = 0
    /\ offered = <<>>
    /\ calls = <<>>
    /\ promises = <<>>
    /\ response = NoResponse
    /\ executed = {}
    /\ conversations = <<>>
    /\ reqTools = NullList
    /\ produced = {}
    /\ returnOrder = <<>>
    /\ lastOp = NoOp
    /\ provider \in PROVIDERS
    /\ body = NoBody
    /\ lastCompletion = NoCompletion
    /\ ExtInit

\* app.post("/chat"): the handler up to the loop
ReceiveChat ==
    /\ pc = "idle"
    /\ \E userMessage \in {"hi", Undef}, providedHistory \in Histories :
         /\ body' = [message |-> userMessage, history |-> providedHistory]
         /\ IF ~Truthy(userMessage)
            THEN /\ response' = ErrorResponse(400, <<"The 'message' field is required.">>)
                 /\ pc' = "done"
                 /\ endpoint' = "chat"
                 /\ UNCHANGED <<messages, baseLen>>
            ELSE /\ messages' = <<Msg("system", SYSTEM_PROMPT)>> \o providedHistory
                                  \o <<Msg("user", <<userMessage>>)>>
                 /\ baseLen' = Len(providedHistory) + 2
                 /\ endpoint' = "chat"
                 /\ pc' = "call"
                 /\ UNCHANGED response
    /\ UNCHANGED <<allowedCsv, avail, fs, toolCallCount, completions, offered, calls,
                   promises, executed, conversations, reqTools, produced, returnOrder,
                   lastOp, provider, lastCompletion, extVars>>

\* app.post("/v1/chat/completions"): the handler up to the loop
ReceiveV1 ==
    /\ pc = "idle"
    /\ \E stream \in BOOLEAN, hasMessages \in BOOLEAN, tools \in {NullList, CallerTools} :
         /\ reqTools' = tools
         /\ IF stream
            THEN /\ response' = ErrorResponse(400, <<"Streaming is not currently supported">>)
                 /\ pc' = "done"
                 /\ endpoint' = "v1"
                 /\ UNCHANGED <<messages, baseLen>>
            ELSE IF ~hasMessages
            THEN /\ response' = ErrorResponse(400, <<"The 'messages' field is required and must be an array.">>)
                 /\ pc' = "done"
                 /\ endpoint' = "v1"
                 /\ UNCHANGED <<messages, baseLen>>
            ELSE /\ messages' = <<Msg("user", <<"hi">>)>>
                 /\ baseLen' = 1
                 /\ endpoint' = "v1"
                 /\ pc' = "call"
                 /\ UNCHANGED response
    /\ UNCHANGED <<allowedCsv, avail, fs, toolCallCount, completions, offered, calls,
                   promises, executed, conversations, produced, returnOrder, lastOp,
                   provider, body, lastCompletion, extVars>>

\* llmProvider.chatCompletion({ messages, tools, ... }) is called: the adapter
\* runs up to its vendor request on the array the handler passed
CallProvider ==
    /\ pc = "call"
    /\ messages' = AfterShift(provider, messages)
    /\ completions' = completions + 1
    /\ offered' = IF reqTools # NullList THEN reqTools ELSE getToolDefinitions(avail)
    /\ pc' = "completion"
    /\ UNCHANGED <<allowedCsv, avail, fs, endpoint, baseLen, toolCallCount, calls,
                   promises, response, executed, conversations, reqTools, produced,
                   returnOrder, lastOp, provider, body, lastCompletion, extVars>>

\* variant: the loop condition admits one more round
LoopOrExceedOffByOne(count) ==
    IF count <= MAX_TOOL_CALLS
    THEN /\ pc' = "call"
         /\ UNCHANGED response
    ELSE /\ response' = ErrorResponse(500, <<"Exceeded maximum number of tool calls.">>)
         /\ pc' = "done"

\* the loop condition and what follows it: the next chatCompletion call, or
\* the response after the loop
LoopOrExceed(count) ==
    IF count < MAX_TOOL_CALLS
    THEN /\ pc' = "call"
         /\ UNCHANGED response
    ELSE /\ response' = ErrorResponse(500, <<"Exceeded maximum number of tool calls.">>)
         /\ pc' = "done"

\* llmProvider.chatCompletion rejects; catch (e) answers
ProviderFails ==
    /\ pc = "completion"
    /\ response' = ErrorResponse(500, <<"LLM API error:", "provider request failed">>)
    /\ pc' = "done"
    /\ UNCHANGED <<allowedCsv, avail, fs, endpoint, messages, baseLen, toolCallCount,
                   completions, offered, calls, promises, executed, conversations,
                   reqTools, produced, returnOrder, lastOp,
                   provider, body, lastCompletion, extVars>>

\* the completions a vendor may answer with: a text, or tool calls
VendorCompletions(round) ==
    {VendorCompletion(<<"final answer">>, <<>>)}
        \cup {VendorCompletion(<<>>, WithIds(round, shapes)) : shapes \in ProviderToolCalls}

\* what follows a normalized message without tool calls
Answered(m) ==
    IF endpoint = "chat"
    THEN /\ conversations' = body.history \o <<Msg("user", <<body.message>>)>>
                                \o <<Msg("assistant", m.content)>>
         /\ response' = OkResponse(m.content, conversations')
    ELSE /\ response' = OkResponse(m.content, <<>>)
         /\ UNCHANGED conversations

\* the normalized message carries no tool call: the final answer
FinalAnswer ==
    /\ pc = "completion"
    /\ \E completion \in VendorCompletions(toolCallCount + 1) :
         /\ NormalizedMessage(provider, completion).tool_calls = <<>>
         /\ lastCompletion' = [vendor |-> completion,
                               message |-> NormalizedMessage(provider, completion)]
         /\ Answered(NormalizedMessage(provider, completion))
    /\ pc' = "done"
    /\ UNCHANGED <<allowedCsv, avail, fs, endpoint, messages, baseLen, toolCallCount,
                   completions, offered, calls, promises, executed, reqTools, produced,
                   returnOrder, lastOp, provider, body, extVars>>

\* the state after responseMessage was pushed and the map over its tool
\* calls returned d
Dispatched(responseMessage, d) ==
    /\ messages' = Append(messages, responseMessage)
    /\ calls' = responseMessage.tool_calls
    /\ promises' = d.promises
    /\ fs' = d.f
    /\ executed' = executed \cup {c.name : c \in {x \in Range(responseMessage.tool_calls) :
                                                      Runs(avail, x)}}
    /\ produced' = produced \cup Range(d.returned)
    /\ returnOrder' = [i \in 1..Len(d.returned) |-> d.returned[i][1]]

\* the completion carries tool calls: the assistant message is pushed and
\* every callback of the map runs up to its first suspension
ToolCallsResponse ==
    /\ pc = "completion"
    /\ \E completion \in VendorCompletions(toolCallCount + 1) :
         /\ NormalizedMessage(provider, completion).tool_calls # <<>>
         /\ lastCompletion' = [vendor |-> completion,
                               message |-> NormalizedMessage(provider, completion)]
         /\ Dispatched(NormalizedMessage(provider, completion),
                       DispatchAll(avail, NormalizedMessage(provider, completion).tool_calls,
                                   fs, <<>>))
    /\ pc' = "join"
    /\ UNCHANGED <<allowedCsv, avail, endpoint, baseLen, toolCallCount, completions,
                   offered, response, conversations, reqTools, lastOp, provider, body,
                   extVars>>

\* the subprocess of a pending bash_command ends and its promise resolves.
\* A rejection that exists when the map returns is handled first (JoinReject),
\* so a subprocess only ends before the join when no promise is rejected;
\* after the response it ends whenever it ends.
Settle ==
    /\ pc \in {"join", "done"}
    /\ pc = "join" => \A j \in 1..Len(promises) : promises[j].state # "rejected"
    /\ \E i \in 1..Len(promises) :
         /\ promises[i].state = "pending"
         /\ \E outcome \in BashOutcomes(Arg(ObjectValues(calls[i].arguments.pairs), 1)) :
              /\ promises' = [promises EXCEPT ![i] = Fulfilled(ToolResult(calls[i], outcome))]
              /\ produced' = produced \cup {<<calls[i].id, outcome>>}
              /\ returnOrder' = Append(returnOrder, calls[i].id)
    /\ UNCHANGED <<allowedCsv, avail, fs, pc, endpoint, messages, baseLen, toolCallCount,
                   completions, offered, calls, response, executed, conversations,
                   reqTools, lastOp,
                   provider, body, lastCompletion, extVars>>

\* await Promise.all(toolPromises) resolves: results pushed in call order
JoinAll ==
    /\ pc = "join"
    /\ \A i \in 1..Len(promises) : promises[i].state = "fulfilled"
    /\ messages' = messages \o [i \in 1..Len(promises) |-> promises[i].value]
    /\ toolCallCount' = toolCallCount + 1
    /\ LoopOrExceed(toolCallCount + 1)
    /\ calls' = <<>>
    /\ promises' = <<>>
    /\ UNCHANGED <<allowedCsv, avail, fs, endpoint, baseLen, completions, offered,
                   executed, conversations, reqTools, produced, returnOrder, lastOp,
                   provider, body, lastCompletion, extVars>>

\* await Promise.all(toolPromises) rejects with the first rejection;
\* catch (e) answers while the other promises are left as they are
JoinReject ==
    /\ pc = "join"
    /\ \E i \in 1..Len(promises) :
         /\ promises[i].state = "rejected"
         /\ \A j \in 1..(i - 1) : promises[j].state # "rejected"
         /\ response' = ErrorResponse(500, <<"LLM API error:">> \o promises[i].value.content)
    /\ pc' = "done"
    /\ UNCHANGED <<allowedCsv, avail, fs, endpoint, messages, baseLen, toolCallCount,
                   completions, offered, calls, promises, executed, conversations,
                   reqTools, produced, returnOrder, lastOp,
                   provider, body, lastCompletion, extVars>>

Next ==
    \/ ReceiveChat
    \/ ReceiveV1
    \/ CallProvider
    \/ ProviderFails
    \/ FinalAnswer
    \/ ToolCallsResponse
    \/ Settle
    \/ JoinAll
    \/ JoinReject

Spec == Init /\ [][Next]_vars

(***************************************************************************)
(* Single tool calls, dispatched as the map callback dispatches them, over *)
(* the argument objects a model can write: any subset of a tool's keys     *)
(* that holds the given required ones, in any order.                       *)
(***************************************************************************)
MaxOps == 1

Perms(S) == {s \in [1..Cardinality(S) -> S] : \A i, j \in 1..Cardinality(S) : i # j => s[i] # s[j]}

Assignments(vals, S) ==
    {g \in [S -> UNION {vals[k] : k \in S}] : \A k \in S : g[k] \in vals[k]}

ArgObjects(vals, required) ==
    UNION {UNION {{Obj([i \in 1..Len(s) |-> <<s[i], g[s[i]]>>]) : g \in Assignments(vals, S)}
                  : s \in Perms(S)}
           : S \in {T \in SUBSET (DOMAIN vals) : required \subseteq T}}

\* values a model may write under each key of a tool's arguments
ArgValues(name) ==
    CASE name = "delete_file" ->
           [path |-> {"/tmp/ws/a.txt", "/etc/passwd"}, confirm |-> {JTrue, JFalse, "false"},
            force |-> {JTrue}]
      [] name = "write_file" ->
           [file_path |-> {"/tmp/ws/notes.txt", "/etc/notes.txt"}, content |-> {"hello"}]
      [] name = "read_file" ->
           [file_path |-> {"/tmp/ws/a.txt", "/etc/passwd"}, max_lines |-> {"#1"}]
      [] name = "edit_file" ->
           [file_path |-> {"/tmp/ws/a.txt", "/etc/passwd"}, old_text |-> {"a", "r"},
            new_text |-> {"b"}]
      [] name = "copy_file" ->
           [source |-> {"/tmp/ws/a.txt"}, destination |-> {"/tmp/ws/b.txt", "/etc/notes.txt"}]
      [] name = "move_file" ->
           [source |-> {"/tmp/ws/a.txt"}, destination |-> {"/tmp/ws/b.txt", "/etc/notes.txt"}]
      [] name = "search_and_replace" ->
           [pattern |-> {"a"}, replacement |-> {"b", ""}, path |-> {"/tmp/ws"},
            file_pattern |-> {"*", ""}, dry_run |-> {JTrue, JFalse}]

\* the keys the generated argument objects always carry
ArgRequired(name) ==
    CASE name = "delete_file" -> {"path"}
      [] name = "write_file" -> {"file_path", "content"}
      [] name = "read_file" -> {"file_path"}
      [] name = "edit_file" -> {"file_path", "old_text", "new_text"}
      [] name = "copy_file" -> {"source", "destination"}
      [] name = "move_file" -> {"source", "destination"}
      [] name = "search_and_replace" -> {"pattern", "replacement"}

\* the argument objects of the model, per tool
DeleteArgs == ArgObjects(ArgValues("delete_file"), ArgRequired("delete_file"))
WriteArgs == ArgObjects(ArgValues("write_file"), ArgRequired("write_file"))
ReadArgs == ArgObjects(ArgValues("read_file"), ArgRequired("read_file"))
EditArgs == ArgObjects(ArgValues("edit_file"), ArgRequired("edit_file"))
CopyArgs == ArgObjects(ArgValues("copy_file"), ArgRequired("copy_file"))
MoveArgs == ArgObjects(ArgValues("move_file"), ArgRequired("move_file"))
ReplaceArgs == ArgObjects(ArgValues("search_and_replace"), ArgRequired("search_and_replace"))

ToolArgs(name) ==
    CASE name = "delete_file" -> DeleteArgs
      [] name = "write_file" -> WriteArgs
      [] name = "read_file" -> ReadArgs
      [] name = "edit_file" -> EditArgs
      [] name = "copy_file" -> CopyArgs
      [] name = "move_file" -> MoveArgs
      [] name = "search_and_replace" -> ReplaceArgs

FileTools ==
    {"delete_file", "write_file", "read_file", "edit_file", "copy_file", "move_file",
     "search_and_replace"}

InitTools ==
    /\ allowedCsv = Unset
    /\ avail = getFilteredTools(ALLOWED_TOOLS_LIST(allowedCsv))
    /\ fs = InitFs
    /\ pc = "direct"
    /\ endpoint = "none"
    /\ messages = <<>>
    /\ baseLen = 0
    /\ toolCallCount = 0
    /\ completions = 0
    /\ offered = <<>>
    /\ calls = <<>>
    /\ promises = <<>>
    /\ response = NoResponse
    /\ executed = {}
    /\ conversations = <<>>
    /\ reqTools = NullList
    /\ produced = {}
    /\ returnOrder = <<>>
    /\ lastOp = NoOp
    /\ provider = "xai"
    /\ body = NoBody
    /\ lastCompletion = NoCompletion
    /\ ExtInit

\* one tool call of a round, from dispatch to the value of its promise
InvokeTool(name) ==
    /\ pc = "direct"
    /\ lastOp.n < MaxOps
    /\ \E arguments \in ToolArgs(name) :
         LET call == ToolCall(<<lastOp.n + 1, 1>>, name, arguments)
             r == RunToolCall(avail, call, fs)
         IN /\ fs' = r.f
            /\ lastOp' = [n |-> lastOp.n + 1, call |-> call, before |-> fs, out |-> r.out,
                          threw |-> r.threw, report |-> r.report]
            /\ executed' = IF Runs(avail, call) THEN executed \cup {name} ELSE executed
    /\ UNCHANGED <<allowedCsv, avail, pc, endpoint, messages, baseLen, toolCallCount,
                   completions, offered, calls, promises, response, conversations,
                   reqTools, produced, returnOrder, provider, body, lastCompletion, extVars>>

NextTools == \E name \in FileTools : InvokeTool(name)

SpecTools == InitTools /\ [][NextTools]_vars

(***************************************************************************)
(* The browser session (js/tools.js, _getBrowser and the browser tools).   *)
(* Every invocation is a task; its steps are the stretches of code between *)
(* two awaits, so the tasks of one round and of concurrent requests        *)
(* interleave at the awaits.                                               *)
(***************************************************************************)
MaxBrowserCalls == 3

\* browser_navigate stands for the tools that use the page
BrowserTools == {"browser_navigate", "browser_close"}

PlaywrightError == <<"Error: Playwright not installed. Install with: npm install playwright && npx playwright install">>

BrowserTask(tool, at, inst, page, out) ==
    [tool |-> tool, pc |-> at, inst |-> inst, page |-> page, out |-> out]

\* no request is being handled and no tool has run
NoRequest ==
    /\ allowedCsv = Unset
    /\ avail = getFilteredTools(ALLOWED_TOOLS_LIST(allowedCsv))
    /\ fs = InitFs
    /\ endpoint = "none"
    /\ messages = <<>>
    /\ baseLen = 0
    /\ toolCallCount = 0
    /\ completions = 0
    /\ offered = <<>>
    /\ calls = <<>>
    /\ promises = <<>>
    /\ response = NoResponse
    /\ executed = {}
    /\ conversations = <<>>
    /\ reqTools = NullList
    /\ produced = {}
    /\ returnOrder = <<>>
    /\ lastOp = NoOp
    /\ provider = "xai"
    /\ body = NoBody
    /\ lastCompletion = NoCompletion

handlerVars == <<allowedCsv, avail, fs, pc, endpoint, messages, baseLen, toolCallCount,
                 completions, offered, calls, promises, response, executed, conversations,
                 reqTools, produced, returnOrder, lastOp, provider, body, lastCompletion>>

InitBrowser ==
    /\ NoRequest
    /\ pc = "browser"
    /\ ExtInit

\* a browser tool is dispatched and runs up to its first suspension:
\* browser_close tests _browserInstance, the others enter _getBrowser
BrowserCall(tool) ==
    /\ pc = "browser"
    /\ Len(task) < MaxBrowserCalls
    /\ task' = Append(task,
         IF tool = "browser_close"
         THEN IF browserInstance # Null
              THEN BrowserTask(tool, "closing", browserInstance, Null, <<>>)
              ELSE BrowserTask(tool, "done", Null, Null, <<"Browser closed successfully">>)
         ELSE IF browserInstance = Null
              THEN BrowserTask(tool, "import", Null, Null, <<>>)
              ELSE BrowserTask(tool, "page", Null, browserPage, <<>>))
    /\ UNCHANGED <<handlerVars, concVars, browserInstance, browserPage, liveBrowsers, shellVars>>

\* await import('playwright') resolves and chromium.launch is called, or it
\* rejects and the catch returns the error
ImportResolves(i) ==
    /\ task[i].pc = "import"
    /\ \E installed \in BOOLEAN :
         task' = [task EXCEPT ![i] = IF installed THEN [@ EXCEPT !.pc = "launch"]
                                     ELSE [@ EXCEPT !.pc = "done", !.out = PlaywrightError]]
    /\ UNCHANGED <<handlerVars, concVars, browserInstance, browserPage, liveBrowsers, shellVars>>

\* await chromium.launch resolves: the new browser, named after the task
\* that launched it, is assigned and newPage is called on it
LaunchResolves(i) ==
    /\ task[i].pc = "launch"
    /\ liveBrowsers' = liveBrowsers \cup {i}
    /\ browserInstance' = i
    /\ task' = [task EXCEPT ![i] = [@ EXCEPT !.pc = "newPage", !.inst = i]]
    /\ UNCHANGED <<handlerVars, concVars, browserPage, shellVars>>

\* await _browserInstance.newPage() resolves and _getBrowser returns
\* [_browserPage, null]; or it rejects (always on a browser closed
\* meanwhile) and the catch returns the error, _browserInstance staying set
NewPageResolves(i) ==
    /\ task[i].pc = "newPage"
    /\ \E created \in BOOLEAN :
         IF created /\ task[i].inst \in liveBrowsers
         THEN /\ browserPage' = task[i].inst
              /\ task' = [task EXCEPT ![i] = [@ EXCEPT !.pc = "page", !.page = task[i].inst]]
         ELSE /\ task' = [task EXCEPT ![i] = [@ EXCEPT !.pc = "done", !.out = PlaywrightError]]
              /\ UNCHANGED browserPage
    /\ UNCHANGED <<handlerVars, concVars, browserInstance, liveBrowsers, shellVars>>

\* the tool uses the page handle it was given and returns
PageOperation(i) ==
    /\ task[i].pc = "page"
    /\ task' = [task EXCEPT ![i] =
         [@ EXCEPT !.pc = "done",
                   !.out = IF task[i].page = Null
                           THEN <<"Error navigating to", "Cannot read properties of null">>
                           ELSE IF task[i].page \notin liveBrowsers
                                THEN <<"Error navigating to", "Target page, context or browser has been closed">>
                                ELSE <<"Successfully navigated to">>]]
    /\ UNCHANGED <<handlerVars, concVars, browserInstance, browserPage, liveBrowsers, shellVars>>

\* await _browserInstance.close() resolves and both handles are reset, or
\* it rejects and the catch returns the error
CloseResolves(i) ==
    /\ task[i].pc = "closing"
    /\ \E closed \in BOOLEAN :
         IF closed
         THEN /\ liveBrowsers' = liveBrowsers \ {task[i].inst}
              /\ browserInstance' = Null
              /\ browserPage' = Null
              /\ task' = [task EXCEPT ![i] = [@ EXCEPT !.pc = "done",
                                                       !.out = <<"Browser closed successfully">>]]
         ELSE /\ task' = [task EXCEPT ![i] = [@ EXCEPT !.pc = "done",
                                                       !.out = <<"Error closing browser:">>]]
              /\ UNCHANGED <<liveBrowsers, browserInstance, browserPage>>
    /\ UNCHANGED <<handlerVars, concVars, shellVars>>

NextBrowser ==
    \/ \E tool \in BrowserTools : BrowserCall(tool)
    \/ \E i \in DOMAIN task : ImportResolves(i)
    \/ \E i \in DOMAIN task : LaunchResolves(i)
    \/ \E i \in DOMAIN task : NewPageResolves(i)
    \/ \E i \in DOMAIN task : PageOperation(i)
    \/ \E i \in DOMAIN task : CloseResolves(i)

SpecBrowser == InitBrowser /\ [][NextBrowser]_vars

(***************************************************************************)
(* Subprocesses (js/tools.js, bash_command and bash_script).  execAsync    *)
(* starts a shell; the shell runs the command in place or in a child it    *)
(* forks; the timeout of exec signals the shell only, and the promise      *)
(* settles when the shell is gone and the output pipes are closed.         *)
(***************************************************************************)
BashTools == {"bash_command", "bash_script"}

BashInputs ==
    {"git status", "/usr/bin/git status", "sleep 100", "sleep 100 >/dev/null 2>&1",
     "rm -rf /", "sudo rm -rf /tmp/ws", "sudo RM -RF /tmp/ws", "mkfs /dev/sda",
     "echo fork bomb", "rm  -rf /"}

TimeoutValues == {Undef, "#1", "#0"}

\* the timeout parameter after its default
TimeoutOf(tool, v) == IF v # Undef THEN v ELSE IF tool = "bash_command" THEN "30" ELSE "60"

\* timeout * 1000 > 0: exec arms a timer
TimerArmed(tool, v) == TimeoutOf(tool, v) # "#0"

\* a process the shell forked keeps the output pipes unless the command
\* redirects its output
HoldsPipes(command) == command # "sleep 100 >/dev/null 2>&1"

TimeoutText(tool, v) ==
    <<IF tool = "bash_command" THEN "Error: Command timed out after"
      ELSE "Error: Script timed out after", ToStr(TimeoutOf(tool, v)), "seconds.">>

InitBash ==
    /\ NoRequest
    /\ pc = "bash"
    /\ ExtInit

\* the tool is called and runs up to its await
BashCall(tool, command, timeout) ==
    /\ pc = "bash"
    /\ sh = <<>>
    /\ fs' = Execute(tool, <<command, timeout>>, fs).f
    /\ sh' = [tool |-> tool, command |-> command, timeout |-> timeout,
              pc |-> IF Execute(tool, <<command, timeout>>, fs).spawned THEN "running" ELSE "done",
              out |-> Execute(tool, <<command, timeout>>, fs).out,
              spawned |-> Execute(tool, <<command, timeout>>, fs).spawned,
              wrote |-> Exists(fs', ScriptPath),
              forked |-> FALSE, killed |-> FALSE, exit |-> "none"]
    /\ procs' = IF sh'.spawned THEN {"shell"} ELSE {}
    /\ UNCHANGED <<allowedCsv, avail, pc, endpoint, messages, baseLen, toolCallCount,
                   completions, offered, calls, promises, response, executed,
                   conversations, reqTools, produced, returnOrder, lastOp, provider,
                   body, lastCompletion, sessionVars, concVars>>

\* the shell forks a child for the command instead of running it in place
ShellForks ==
    /\ sh # <<>>
    /\ "shell" \in procs
    /\ ~sh.forked
    /\ procs' = procs \cup {"child"}
    /\ sh' = [sh EXCEPT !.forked = TRUE]
    /\ UNCHANGED <<handlerVars, concVars, sessionVars>>

ChildExits ==
    /\ "child" \in procs
    /\ procs' = procs \ {"child"}
    /\ UNCHANGED <<handlerVars, concVars, sessionVars, sh>>

\* the shell ends by itself, after the child it waits for
ShellExits ==
    /\ sh # <<>>
    /\ procs = {"shell"}
    /\ \E code \in {"ok", "failed"} : sh' = [sh EXCEPT !.exit = code]
    /\ procs' = {}
    /\ UNCHANGED <<handlerVars, concVars, sessionVars>>

\* the timer of exec fires: the shell is signalled, e.killed is set
TimeoutExpires ==
    /\ sh # <<>>
    /\ sh.pc = "running"
    /\ TimerArmed(sh.tool, sh.timeout)
    /\ "shell" \in procs
    /\ procs' = procs \ {"shell"}
    /\ sh' = [sh EXCEPT !.killed = TRUE]
    /\ UNCHANGED <<handlerVars, concVars, sessionVars>>

\* the promise of execAsync settles and the tool returns; bash_script
\* unlinks its temporary file first
BashReturns ==
    /\ sh # <<>>
    /\ sh.pc = "running"
    /\ "shell" \notin procs
    /\ "child" \in procs => ~HoldsPipes(sh.command)
    /\ sh' = [sh EXCEPT !.pc = "done",
                        !.out = IF sh.killed THEN TimeoutText(sh.tool, sh.timeout)
                                ELSE IF sh.exit = "ok" THEN <<"STDOUT:", sh.command>>
                                     ELSE <<IF sh.tool = "bash_command"
                                            THEN "Error executing command:"
                                            ELSE "Error executing script:", sh.command>>]
    /\ fs' = IF sh.tool = "bash_script" THEN Remove(fs, ScriptPath) ELSE fs
    /\ UNCHANGED <<allowedCsv, avail, pc, endpoint, messages, baseLen, toolCallCount,
                   completions, offered, calls, promises, response, executed,
                   conversations, reqTools, produced, returnOrder, lastOp, provider,
                   body, lastCompletion, sessionVars, procs, concVars>>

NextBash ==
    \/ \E tool \in BashTools, command \in BashInputs, timeout \in TimeoutValues :
          BashCall(tool, command, timeout)
    \/ ShellForks
    \/ ChildExits
    \/ ShellExits
    \/ TimeoutExpires
    \/ BashReturns

SpecBash == InitBash /\ [][NextBash]_vars

(***************************************************************************)
(* Sequences of file tool calls, each written with its keys in parameter   *)
(* order, on a workspace that holds sensitive files.                       *)
(***************************************************************************)
MaxFileOps == 2

Call(name, pairs) == [name |-> name, arguments |-> Obj(pairs)]

FileCalls ==
    {Call("read_file", <<<<"file_path", p>>>>) :
        p \in {"/tmp/ws/.env", "/tmp/ws/id_rsa", "/tmp/ws/copy.txt", "/tmp/ws/a.txt"}}
    \cup {Call("copy_file", <<<<"source", sd[1]>>, <<"destination", sd[2]>>>>) :
            sd \in {<<"/tmp/ws/id_rsa", "/tmp/ws/copy.txt">>, <<"/tmp/ws", "/tmp/ws2">>,
                    <<"/tmp/ws/a.txt", "/tmp/ws/.env">>, <<"/tmp/ws/a.txt", "/tmp/ws/b.txt">>}}
    \cup {Call("move_file", <<<<"source", "/tmp/ws/id_rsa">>, <<"destination", "/tmp/ws/copy.txt">>>>),
          Call("search_code", <<<<"pattern", ".">>, <<"path", "/tmp/ws">>>>),
          Call("search_and_replace",
               <<<<"pattern", "PRIVATE KEY">>, <<"replacement", "x">>, <<"path", "/tmp/ws">>,
                 <<"file_pattern", "*">>, <<"dry_run", JFalse>>>>),
          Call("search_and_replace",
               <<<<"pattern", "a">>, <<"replacement", "x">>, <<"path", "/tmp/ws">>>>),
          Call("edit_file", <<<<"file_path", "/tmp/ws/.env">>, <<"old_text", "a">>, <<"new_text", "x">>>>),
          Call("write_file", <<<<"file_path", "/tmp/ws/.env">>, <<"content", "hello">>>>),
          Call("write_file", <<<<"file_path", "/tmp/ws/notes.txt">>, <<"content", "hello">>>>),
          Call("delete_file", <<<<"path", "/tmp/ws/.env">>, <<"confirm", JTrue>>>>),
          Call("delete_file", <<<<"path", "/tmp/ws">>, <<"confirm", JTrue>>>>)}
    \cup {Call("delete_file", <<<<"path", p>>>> \o c) :
            p \in {"/", "/tmp", "/etc", ".."},
            c \in {<<>>, <<<<"confirm", JTrue>>>>, <<<<"confirm", JFalse>>>>}}

InitFiles ==
    /\ NoRequest
    /\ pc = "files"
    /\ ExtInit

\* one file tool call, from dispatch to the value of its promise
InvokeFileTool(shape) ==
    /\ pc = "files"
    /\ lastOp.n < MaxFileOps
    /\ fs' = RunToolCall(avail, ToolCall(<<lastOp.n + 1, 1>>, shape.name, shape.arguments), fs).f
    /\ lastOp' = [n |-> lastOp.n + 1,
                  call |-> ToolCall(<<lastOp.n + 1, 1>>, shape.name, shape.arguments),
                  before |-> fs,
                  out |-> RunToolCall(avail, ToolCall(<<lastOp.n + 1, 1>>, shape.name,
                                                      shape.arguments), fs).out,
                  threw |-> FALSE, report |-> {}]
    /\ UNCHANGED <<allowedCsv, avail, pc, endpoint, messages, baseLen, toolCallCount,
                   completions, offered, calls, promises, response, executed,
                   conversations, reqTools, produced, returnOrder, provider, body,
                   lastCompletion, extVars>>

NextFiles == \E shape \in FileCalls : InvokeFileTool(shape)

SpecFiles == InitFiles /\ [][NextFiles]_vars

(***************************************************************************)
(* Several /chat requests in flight together: each run of the handler has  *)
(* its own locals, conversations and the filesystem are shared, and a run  *)
(* yields at every await (js/agent.js 63-150).                             *)
(***************************************************************************)
MaxChats == 2

\* the bodies the callers send
ChatBodies ==
    {[message |-> "hi", history |-> <<>>],
     [message |-> "hello", history |-> <<StrayTool>>],
     [message |-> Undef, history |-> <<>>]}

\* tool-call lists whose callbacks settle without a subprocess
ChatToolCalls ==
    {r \in {<<CallUnknown, CallWeather>>, <<CallNoQuery>>} : Len(r) <= MaxCallsPerRound}

\* the completions the vendor answers these requests with
ChatCompletions(round) ==
    {VendorCompletion(<<"final answer">>, <<>>)}
        \cup {VendorCompletion(<<>>, WithIds(round, shapes)) : shapes \in ChatToolCalls}

\* updatedHistory
UpdatedHistory(b, responseText) ==
    b.history \o <<Msg("user", <<b.message>>)>> \o <<Msg("assistant", responseText)>>

\* variant: the slot keeps what the first request saved
SavedHistoryFirstWriter(slot, updatedHistory) == IF slot = <<>> THEN updatedHistory ELSE slot

\* conversations["default"] = updatedHistory
SavedHistory(slot, updatedHistory) == updatedHistory

\* the locals of one run of the handler
Chat(at, b, msgs, count, ps, res) ==
    [pc |-> at, body |-> b, messages |-> msgs, toolCallCount |-> count, promises |-> ps,
     response |-> res]

\* what the steps of these requests leave alone, besides the shared state
localVars == <<allowedCsv, avail, pc, endpoint, messages, baseLen, toolCallCount,
               completions, offered, calls, promises, response, executed, reqTools,
               produced, returnOrder, lastOp, provider, body, lastCompletion>>

chatFrame == <<localVars, sessionVars, shellVars, capture, scripts, clock>>

InitChats ==
    /\ NoRequest
    /\ pc = "chats"
    /\ ExtInit

\* a request arrives and its handler runs up to the first completion call
ChatReceive ==
    /\ pc = "chats"
    /\ Len(reqs) < MaxChats
    /\ \E b \in ChatBodies :
         IF ~Truthy(b.message)
         THEN /\ reqs' = Append(reqs,
                    Chat("done", b, <<>>, 0, <<>>,
                         ErrorResponse(400, <<"The 'message' field is required.">>)))
              /\ log' = Append(log, Len(reqs) + 1)
         ELSE /\ reqs' = Append(reqs,
                    Chat("call", b,
                         <<Msg("system", SYSTEM_PROMPT)>> \o b.history
                             \o <<Msg("user", <<b.message>>)>>,
                         0, <<>>, NoResponse))
              /\ UNCHANGED log
    /\ UNCHANGED <<chatFrame, fs, conversations>>

\* request i calls chatCompletion with its messages array
ChatCallProvider(i) ==
    /\ reqs[i].pc = "call"
    /\ reqs' = [reqs EXCEPT ![i].messages = AfterShift(provider, @), ![i].pc = "completion"]
    /\ UNCHANGED <<chatFrame, fs, conversations, log>>

\* the completion call of request i rejects; catch (e) answers
ChatProviderFails(i) ==
    /\ reqs[i].pc = "completion"
    /\ reqs' = [reqs EXCEPT ![i].pc = "done",
                  ![i].response = ErrorResponse(500, <<"LLM API error:", "provider request failed">>)]
    /\ log' = Append(log, i)
    /\ UNCHANGED <<chatFrame, fs, conversations>>

\* the completion of request i carries no tool call: the history is saved
\* and the response sent in one run
ChatFinalAnswer(i) ==
    /\ reqs[i].pc = "completion"
    /\ \E completion \in ChatCompletions(reqs[i].toolCallCount + 1) :
         /\ NormalizedMessage(provider, completion).tool_calls = <<>>
         /\ conversations' = SavedHistory(conversations,
                UpdatedHistory(reqs[i].body, NormalizedMessage(provider, completion).content))
         /\ reqs' = [reqs EXCEPT ![i].pc = "done",
                       ![i].response = OkResponse(NormalizedMessage(provider, completion).content,
                            UpdatedHistory(reqs[i].body,
                                           NormalizedMessage(provider, completion).content))]
    /\ log' = Append(log, i)
    /\ UNCHANGED <<chatFrame, fs>>

\* request i after responseMessage was pushed and the map returned d
ChatDispatched(i, responseMessage, d) ==
    /\ reqs' = [reqs EXCEPT ![i].messages = Append(@, responseMessage),
                            ![i].promises = d.promises,
                            ![i].pc = "join"]
    /\ fs' = d.f

\* the completion of request i carries tool calls
ChatToolCallsResponse(i) ==
    /\ reqs[i].pc = "completion"
    /\ \E completion \in ChatCompletions(reqs[i].toolCallCount + 1) :
         /\ NormalizedMessage(provider, completion).tool_calls # <<>>
         /\ ChatDispatched(i, NormalizedMessage(provider, completion),
                DispatchAll(avail, NormalizedMessage(provider, completion).tool_calls, fs, <<>>))
    /\ UNCHANGED <<chatFrame, conversations, log>>

\* Promise.all of request i resolves: results pushed, next round or the
\* response after the loop
ChatJoinAll(i) ==
    /\ reqs[i].pc = "join"
    /\ \A j \in 1..Len(reqs[i].promises) : reqs[i].promises[j].state = "fulfilled"
    /\ reqs' = [reqs EXCEPT
         ![i].messages = @ \o [j \in 1..Len(reqs[i].promises) |-> reqs[i].promises[j].value],
         ![i].toolCallCount = @ + 1,
         ![i].promises = <<>>,
         ![i].pc = IF reqs[i].toolCallCount + 1 < MAX_TOOL_CALLS THEN "call" ELSE "done",
         ![i].response = IF reqs[i].toolCallCount + 1 < MAX_TOOL_CALLS THEN @
                         ELSE ErrorResponse(500, <<"Exceeded maximum number of tool calls.">>)]
    /\ log' = IF reqs[i].toolCallCount + 1 < MAX_TOOL_CALLS THEN log
              ELSE Append(log, i)
    /\ UNCHANGED <<chatFrame, fs, conversations>>

\* Promise.all of request i rejects; catch (e) answers
ChatJoinReject(i) ==
    /\ reqs[i].pc = "join"
    /\ \E j \in 1..Len(reqs[i].promises) :
         /\ reqs[i].promises[j].state = "rejected"
         /\ \A k \in 1..(j - 1) : reqs[i].promises[k].state # "rejected"
         /\ reqs' = [reqs EXCEPT ![i].pc = "done",
                       ![i].response = ErrorResponse(500,
                            <<"LLM API error:">> \o reqs[i].promises[j].value.content)]
    /\ log' = Append(log, i)
    /\ UNCHANGED <<chatFrame, fs, conversations>>

NextChats ==
    \/ ChatReceive
    \/ \E i \in 1..Len(reqs) :
         \/ ChatCallProvider(i)
         \/ ChatProviderFails(i)
         \/ ChatFinalAnswer(i)
         \/ ChatToolCallsResponse(i)
         \/ ChatJoinAll(i)
         \/ ChatJoinReject(i)

SpecChats == InitChats /\ [][NextChats]_vars

(***************************************************************************)
(* The caps on captured output: the pipe buffer of bash_command and        *)
(* bash_script, the body limit of http_request, max_lines of read_file     *)
(* (js/tools.js 127-136, 192-208, 233-251, 864-873).                       *)
(***************************************************************************)
MaxCaptures == 2

\* maxBuffer: 1024 * 1024
MaxBuffer == 1048576

\* text.substring(0, 5000)
BodyLimit == 5000

Min(a, b) == IF a <= b THEN a ELSE b

TruncatedAtom == "... (truncated, showing first lines of total)"

\* one invocation: the amount produced, the cap, and what came back
Captured(tool, total, cap, out, shown) ==
    [tool |-> tool, total |-> total, cap |-> cap, out |-> out, shown |-> shown,
     marker |-> out # <<>> /\ out[Len(out)] = TruncatedAtom,
     error |-> out # <<>> /\ out[1] \in {"Error executing command:", "Error executing script:",
                                          "Error: Command timed out after", "Error: Script timed out after",
                                          "Error making HTTP request:", "Error reading file:"}]

\* what bash_command / bash_script return when the subprocess wrote total
\* bytes to stdout and exited with status 0. Above maxBuffer exec kills the
\* subprocess and rejects with 'stdout maxBuffer length exceeded'; whether
\* the error carries killed depends on the runtime, so both catch branches
\* are possible.
ExecReturns(tool, total) ==
    IF total > MaxBuffer
    THEN {Captured(tool, total, MaxBuffer,
                   <<IF tool = "bash_command" THEN "Error executing command:"
                     ELSE "Error executing script:", "stdout maxBuffer length exceeded">>, 0),
          Captured(tool, total, MaxBuffer,
                   <<IF tool = "bash_command" THEN "Error: Command timed out after"
                     ELSE "Error: Script timed out after", ToStr(TimeoutOf(tool, Undef)), "seconds.">>, 0)}
    ELSE IF total = 0
         THEN {Captured(tool, total, MaxBuffer,
                        <<IF tool = "bash_command" THEN "Command executed with no output."
                          ELSE "Script executed with no output.">>, 0)}
         ELSE {Captured(tool, total, MaxBuffer, <<"STDOUT:", "stdout">>, total)}

\* what http_request returns for a response body of total characters
HttpReturns(total) ==
    Captured("http_request", total, BodyLimit, <<"Status:", "Headers:", "Body:", "text">>,
             Min(total, BodyLimit))

\* the lines of the file that read_file returned
ShownLines(out) ==
    LET inner == SubSeq(out, 3, IF out[Len(out)] = TruncatedAtom THEN Len(out) - 1 ELSE Len(out))
    IN IF inner = <<>> THEN 0 ELSE LineCount(inner)

\* what read_file returns for a file of the workspace and a max_lines
ReadReturns(filePath, maxLines, f) ==
    Captured("read_file", LineCount(f[Resolve(filePath)].data), NumOf(Default(maxLines, "#500")),
             read_file(<<filePath, maxLines>>, f).out,
             ShownLines(read_file(<<filePath, maxLines>>, f).out))

InitCaps ==
    /\ NoRequest
    /\ pc = "caps"
    /\ ExtInit

capsFrame == <<handlerVars, sessionVars, shellVars, reqs, log, scripts, clock>>

\* bash_command or bash_script runs a command that writes total bytes
ExecCapture(tool) ==
    /\ pc = "caps"
    /\ Len(capture) < MaxCaptures
    /\ \E total \in {0, 1, MaxBuffer, MaxBuffer + 1} :
         \E c \in ExecReturns(tool, total) : capture' = Append(capture, c)
    /\ UNCHANGED capsFrame

\* http_request receives a body of total characters
HttpCapture ==
    /\ pc = "caps"
    /\ Len(capture) < MaxCaptures
    /\ \E total \in {0, BodyLimit, BodyLimit + 1} :
         capture' = Append(capture, HttpReturns(total))
    /\ UNCHANGED capsFrame

\* read_file reads a file of the workspace
ReadCapture ==
    /\ pc = "caps"
    /\ Len(capture) < MaxCaptures
    /\ \E filePath \in {"/tmp/ws/a.txt", "/tmp/ws/b.txt"}, maxLines \in {Undef, "#0", "#1", "#2"} :
         capture' = Append(capture, ReadReturns(filePath, maxLines, fs))
    /\ UNCHANGED capsFrame

NextCaps ==
    \/ \E tool \in BashTools : ExecCapture(tool)
    \/ HttpCapture
    \/ ReadCapture

SpecCaps == InitCaps /\ [][NextCaps]_vars

(***************************************************************************)
(* The recursive walks: explore_project, find_files, search_code, the      *)
(* directory branch of copy_file and search_and_replace (js/tools.js       *)
(* 49-100, 264-329, 366-430, 564-676). A tree is the sequence of the       *)
(* entries of a directory in the order readdirSync returns them; n files   *)
(* that follow each other and match alike are one entry of the sequence.   *)
(***************************************************************************)
MaxWalks == 2

\* const maxItems = 100 of explore_project
maxItems == 100

\* the default of maxResults in find_files and in search_code
FindMaxResults == 100
SearchMaxResults == 50

\* n files in a row, each with hits lines that match the pattern searched for
Run(n, name, hits) == [kind |-> "file", name |-> name, hits |-> hits, n |-> n, items |-> <<>>]
File(name, hits) == Run(1, name, hits)
Dir(name, items) == [kind |-> "dir", name |-> name, hits |-> 0, n |-> 1, items |-> items]

Files(n) == IF n = 0 THEN <<>> ELSE <<Run(n, "f.txt", 1)>>

\* ignoreDirs of explore_project
ExploreIgnore == IgnoreDirs \cup {".env"}

RECURSIVE CountEntries(_, _)
\* the entries of a tree outside the ignored directories
CountEntries(items, ignore) ==
    IF items = <<>> THEN 0
    ELSE (IF Head(items).kind = "file" THEN Head(items).n
          ELSE IF Head(items).name \in ignore THEN 0
               ELSE 1 + CountEntries(Head(items).items, ignore))
         + CountEntries(Tail(items), ignore)

RECURSIVE CountHits(_, _)
\* the matching lines of the files of a tree outside the ignored directories
CountHits(items, perFile) ==
    IF items = <<>> THEN 0
    ELSE (IF Head(items).kind = "file"
          THEN Head(items).n * (IF perFile THEN Min(1, Head(items).hits) ELSE Head(items).hits)
          ELSE IF Head(items).name \in IgnoreDirs THEN 0
               ELSE CountHits(Head(items).items, perFile))
         + CountHits(Tail(items), perFile)

RECURSIVE CountAll(_)
\* every entry of a tree
CountAll(items) ==
    IF items = <<>> THEN 0
    ELSE Head(items).n + CountAll(Head(items).items) + CountAll(Tail(items))

RECURSIVE ExploreDir(_, _)
RECURSIVE ExploreLoop(_, _)
\* walkDir of explore_project; st holds count and the number of truncation
\* notices pushed to result
ExploreDir(items, st) ==
    IF st.count >= maxItems THEN st ELSE ExploreLoop(items, st)

\* the for loop of walkDir; of a row of files it lists those within
\* maxItems, and the iteration for the next one pushes the notice and returns
ExploreLoop(items, st) ==
    IF items = <<>> THEN st
    ELSE IF st.count >= maxItems THEN [st EXCEPT !.notices = @ + 1]
    ELSE IF Head(items).kind = "file" /\ st.count + Head(items).n > maxItems
         THEN [st EXCEPT !.count = maxItems, !.notices = @ + 1]
    ELSE IF Head(items).kind = "dir"
         THEN IF Head(items).name \in ExploreIgnore
              THEN ExploreLoop(Tail(items), st)
              ELSE ExploreLoop(Tail(items),
                               ExploreDir(Head(items).items, [st EXCEPT !.count = @ + 1]))
         ELSE ExploreLoop(Tail(items), [st EXCEPT !.count = @ + Head(items).n])

RECURSIVE FindDir(_, _, _, _)
RECURSIVE FindLoop(_, _, _, _)
\* walkDir of find_files (perLine FALSE: a matching file counts once) and
\* searchInDir of search_code (perLine TRUE: every matching line counts)
FindDir(items, maxResults, perLine, count) ==
    IF count >= maxResults THEN count ELSE FindLoop(items, maxResults, perLine, count)

\* the for loop of both
FindLoop(items, maxResults, perLine, count) ==
    IF items = <<>> \/ count >= maxResults THEN count
    ELSE IF Head(items).kind = "dir"
         THEN FindLoop(Tail(items), maxResults, perLine,
                       IF Head(items).name \in IgnoreDirs THEN count
                       ELSE FindDir(Head(items).items, maxResults, perLine, count))
         ELSE FindLoop(Tail(items), maxResults, perLine,
                       Min(maxResults,
                           count + Head(items).n * (IF perLine THEN Head(items).hits
                                                    ELSE Min(1, Head(items).hits))))

\* one walk: the entries the tool listed or touched, the entries it could
\* have, its cap (-1: the tool has none) and the truncation notices in its result
Walked(tool, tree, cap, listed, total, notices) ==
    [tool |-> tool, tree |-> tree, cap |-> cap, listed |-> listed, total |-> total,
     notices |-> notices]

\* the directory trees explored: names of trees, to keep the states small
ExploreTrees ==
    {<<k, mid, tail>> : k \in {3, 98, 99, 100}, mid \in {"none", "src"},
                        tail \in {"none", "file", ".git"}}

TreeOf(t) ==
    Files(t[1])
        \o (IF t[2] = "src" THEN <<Dir("src", Files(2))>> ELSE <<>>)
        \o (CASE t[3] = "file" -> <<File("z.txt", 1)>>
              [] t[3] = ".git" -> <<Dir(".git", <<File("HEAD", 0)>>)>>
              [] OTHER -> <<>>)

\* the trees searched and copied
WalkTrees ==
    {<<k, mid, tail>> : k \in {0, 1, 2}, mid \in {"none", "src"}, tail \in {"none", ".git"}}

InitWalk ==
    /\ NoRequest
    /\ pc = "walk"
    /\ ExtInit

\* explore_project on a directory
ExploreProject ==
    /\ pc = "walk"
    /\ Len(capture) < MaxWalks
    /\ \E t \in ExploreTrees :
         capture' = Append(capture,
             Walked("explore_project", t, maxItems,
                    ExploreDir(TreeOf(t), [count |-> 0, notices |-> 0]).count,
                    CountEntries(TreeOf(t), ExploreIgnore),
                    ExploreDir(TreeOf(t), [count |-> 0, notices |-> 0]).notices))
    /\ UNCHANGED capsFrame

\* find_files with the pattern '*' or search_code with a pattern, and the
\* notice each pushes when count >= maxResults and results is not empty
FindOrSearch(tool, default) ==
    /\ pc = "walk"
    /\ Len(capture) < MaxWalks
    /\ \E t \in WalkTrees, maxResults \in {0, 1, 2, 3, default} :
         capture' = Append(capture,
             Walked(tool, t, maxResults,
                    FindDir(TreeOf(t), maxResults, tool = "search_code", 0),
                    CountHits(TreeOf(t), tool = "find_files"),
                    IF FindDir(TreeOf(t), maxResults, tool = "search_code", 0) > 0
                       /\ FindDir(TreeOf(t), maxResults, tool = "search_code", 0) >= maxResults
                    THEN 1 ELSE 0))
    /\ UNCHANGED capsFrame

\* copy_file on a directory: copyRecursive copies every entry;
\* search_and_replace: processDir reads every file outside the ignored
\* directories. Neither counts nor stops.
CopyOrReplace(tool) ==
    /\ pc = "walk"
    /\ Len(capture) < MaxWalks
    /\ \E t \in WalkTrees :
         capture' = Append(capture,
             IF tool = "copy_file"
             THEN Walked(tool, t, -1, CountAll(TreeOf(t)), CountAll(TreeOf(t)), 0)
             ELSE Walked(tool, t, -1, CountHits(TreeOf(t), TRUE), CountHits(TreeOf(t), TRUE), 0))
    /\ UNCHANGED capsFrame

NextWalk ==
    \/ ExploreProject
    \/ FindOrSearch("find_files", FindMaxResults)
    \/ FindOrSearch("search_code", SearchMaxResults)
    \/ \E tool \in {"copy_file", "search_and_replace"} : CopyOrReplace(tool)

SpecWalk == InitWalk /\ [][NextWalk]_vars

(***************************************************************************)
(* bash_script invocations of one round: each runs up to its await, the    *)
(* bash processes and the finally blocks interleave (js/tools.js 217-258). *)
(***************************************************************************)
MaxScripts == 2
MaxTicks == 1

ScriptContents == {"git status", "sleep 100"}

\* path.join(os.tmpdir(), `script-${Date.now()}.sh`)
ScriptPathAt(t) ==
    <<"tmp", CASE t = 0 -> "script-0.sh"
               [] t = 1 -> "script-1.sh"
               [] t = 2 -> "script-2.sh"
               [] OTHER -> "script-3.sh">>

\* one invocation: its script, its temporary file, where it is, and what
\* its bash process read from the file
Script(scriptContent, scriptPath, at, ran) ==
    [content |-> scriptContent, path |-> scriptPath, pc |-> at, ran |-> ran]

scriptsFrame == <<localVars, conversations, sessionVars, shellVars, reqs, log, capture>>

InitScripts ==
    /\ NoRequest
    /\ pc = "scripts"
    /\ ExtInit

\* a millisecond passes
Tick ==
    /\ pc = "scripts"
    /\ clock < MaxTicks
    /\ clock' = clock + 1
    /\ UNCHANGED <<scriptsFrame, fs, scripts>>

\* bash_script up to its await: the pattern test, the temporary file
\* written, the bash process started
ScriptCall(scriptContent) ==
    /\ pc = "scripts"
    /\ Len(scripts) < MaxScripts
    /\ ~DangerousScript(scriptContent)
    /\ WriteOk(fs, ScriptPathAt(clock))
    /\ fs' = WriteData(fs, ScriptPathAt(clock), <<scriptContent>>)
    /\ scripts' = Append(scripts, Script(scriptContent, ScriptPathAt(clock), "spawned", <<>>))
    /\ UNCHANGED <<scriptsFrame, clock>>

\* the bash process of invocation i opens its script file and reads it
BashReads(i) ==
    /\ scripts[i].pc = "spawned"
    /\ scripts' = [scripts EXCEPT
         ![i].pc = "running",
         ![i].ran = IF IsFile(fs, scripts[i].path) THEN fs[scripts[i].path].data
                    ELSE <<"bash: No such file or directory">>]
    /\ UNCHANGED <<scriptsFrame, fs, clock>>

\* the bash process of invocation i exits; finally unlinks scriptPath,
\* ignoring a failure
ScriptReturns(i) ==
    /\ scripts[i].pc = "running"
    /\ scripts' = [scripts EXCEPT ![i].pc = "done"]
    /\ fs' = IF IsFile(fs, scripts[i].path) THEN Remove(fs, scripts[i].path) ELSE fs
    /\ UNCHANGED <<scriptsFrame, clock>>

NextScripts ==
    \/ Tick
    \/ \E scriptContent \in ScriptContents : ScriptCall(scriptContent)
    \/ \E i \in 1..Len(scripts) : BashReads(i) \/ ScriptReturns(i)

SpecScripts == InitScripts /\ [][NextScripts]_vars

(***************************************************************************)
(* Properties.                                                             *)
(***************************************************************************)
IsAssistantCalls(m) == m.role = "assistant" /\ m.tool_calls # <<>>

\* the assistant tool-call entries the loop has pushed
RoundsStarted == {k \in (baseLen + 1)..Len(messages) : IsAssistantCalls(messages[k])}

ExceededResponse == ErrorResponse(500, <<"Exceeded maximum number of tool calls.">>)

ErrorTexts ==
    {"Error copying file:", "Error deleting file:", "Error editing file:",
     "Error executing command:", "Error in search and replace:", "Error moving file:",
     "Error reading file:", "Error writing file:", "Error: Cannot copy to sensitive location",
     "Error: Cannot delete root-level path for safety.", "Error: Cannot delete sensitive path",
     "Error: Cannot edit potentially sensitive file", "Error: Cannot move sensitive file",
     "Error: Cannot move to sensitive location", "Error: Cannot read potentially sensitive file",
     "Error: Cannot write to potentially sensitive location",
     "Error: Command contains potentially dangerous pattern and was blocked.",
     "Error: File does not exist.",
     "Error: Must set confirm=True to delete files. This is a safety measure.",
     "Error: Path does not exist.", "Error: Source does not exist.",
     "Error: Text to replace not found in", "Error: Tool", "Error: not a file."}

IsErrorText(out) == out # <<>> /\ out[1] \in ErrorTexts

HasKey(call, k) == \E i \in 1..Len(call.arguments.pairs) : call.arguments.pairs[i][1] = k

HasPair(call, k, v) == \E i \in 1..Len(call.arguments.pairs) : call.arguments.pairs[i] = <<k, v>>

\* the value written under key k, or d when the key is absent
KeyVal(call, k, d) ==
    IF HasKey(call, k)
    THEN LET i == CHOOSE j \in 1..Len(call.arguments.pairs) : call.arguments.pairs[j][1] = k
         IN call.arguments.pairs[i][2]
    ELSE d

\* C1: a /chat request whose every completion response carried a tool call
\* ends after exactly MAX_TOOL_CALLS completion calls and MAX_TOOL_CALLS
\* rounds with the 'Exceeded maximum number of tool calls.' response, and no
\* request makes more than MAX_TOOL_CALLS completion calls.
C1_AlwaysToolEndsAtLimit ==
    /\ completions <= MAX_TOOL_CALLS
    /\ (pc = "done" /\ endpoint = "chat" /\ completions >= 1
            /\ Cardinality(RoundsStarted) = completions)
         => /\ completions = MAX_TOOL_CALLS
            /\ toolCallCount = MAX_TOOL_CALLS
            /\ response = ExceededResponse

\* the results that follow the assistant entry at index a are one per call
\* of that entry, each with the name of its call and the text it produced
ResultBlockOk(a) ==
    LET tcs == messages[a].tool_calls
        n == Len(tcs)
    IN /\ a + n <= Len(messages)
       /\ \A i \in 1..n : messages[a + i].role = "tool"
       /\ \A j \in 1..n :
            LET rs == {i \in 1..n : messages[a + i].tool_call_id = tcs[j].id}
            IN /\ Cardinality(rs) = 1
               /\ \A i \in rs : /\ messages[a + i].name = tcs[j].name
                                /\ <<tcs[j].id, messages[a + i].content>> \in produced

\* C2: whatever the order in which the invocations of a round return, the
\* results appended for the round are exactly one per invocation, each
\* tagged with the id and name of the invocation that produced its content.
C2_ResultsPaired ==
    \A a \in RoundsStarted : a = Len(messages) \/ ResultBlockOk(a)

\* a round of two invocations was joined after the second returned first
C2_Witness ==
    /\ calls = <<>>
    /\ toolCallCount >= 1
    /\ Len(returnOrder) = 2
    /\ returnOrder[1][2] = 2
    /\ returnOrder[2][2] = 1
    /\ \E k \in (baseLen + 1)..Len(messages) :
         messages[k].role = "tool" /\ messages[k].tool_call_id = returnOrder[1]

\* every tool-role message the loop appended follows, with only tool-role
\* messages in between, an assistant entry that holds a call with its id
ToolFollowsAssistant ==
    \A k \in (baseLen + 1)..Len(messages) :
        messages[k].role = "tool" =>
            \E a \in (baseLen + 1)..(k - 1) :
                /\ IsAssistantCalls(messages[a])
                /\ \E j \in 1..Len(messages[a].tool_calls) :
                     messages[a].tool_calls[j].id = messages[k].tool_call_id
                /\ \A m \in (a + 1)..(k - 1) : messages[m].role = "tool"

\* C3: every tool-role message appended by the orchestrator is preceded in
\* its round by an assistant entry holding an invocation with the same id,
\* and the round counter stays within 0..MAX_TOOL_CALLS and never decreases.
C3_TranscriptWellFormed ==
    /\ [](ToolFollowsAssistant /\ toolCallCount \in 0..MAX_TOOL_CALLS)
    /\ [][toolCallCount' >= toolCallCount]_vars

\* the last round was run and its results are in the transcript
C3_Witness ==
    /\ toolCallCount = MAX_TOOL_CALLS
    /\ messages[Len(messages)].role = "tool"
    /\ Cardinality(RoundsStarted) = MAX_TOOL_CALLS

\* C4: the handler makes no further completion call and sends no response
\* while an invocation dispatched in the round is still running, also when
\* an invocation of the round failed.
C4_JoinBeforeProceed ==
    pc \in {"completion", "done"} =>
        \A i \in 1..Len(promises) : promises[i].state # "pending"

\* C5: an invocation whose name is not a tool of the filtered registry
\* yields the tool-role result 'Error: Tool "<name>" not found.' and does
\* not fail.
C5_UnknownToolNotFound ==
    \A i \in 1..Len(calls) :
        calls[i].name \notin Range(avail) =>
            promises[i] = Fulfilled(ToolResultTagged(calls[i].id, calls[i].name,
                                        <<"Error: Tool", calls[i].name, "not found.">>))

\* C6: no invocation of an enabled tool fails, whatever its arguments text:
\* its promise is never rejected, so no fault of argument parsing or of an
\* executor ends the request.
C6_NoFaultEscapes ==
    \A i \in 1..Len(calls) :
        calls[i].name \in Range(avail) => promises[i].state # "rejected"

\* C7: a delete_file invocation whose arguments do not carry confirm = true
\* returns an error text and leaves the filesystem as it was.
C7_DeleteNeedsConfirm ==
    (lastOp.call.name = "delete_file" /\ ~HasPair(lastOp.call, "confirm", JTrue))
        => /\ fs = lastOp.before
           /\ ~lastOp.threw
           /\ IsErrorText(lastOp.out)

PathKeys == {"file_path", "path", "source", "destination"}

PathGuarded == {"read_file", "write_file", "edit_file", "copy_file", "move_file", "delete_file"}

\* the paths outside the workspace root that the arguments of a call name
OutsidePaths(call) ==
    {p \in {Resolve(call.arguments.pairs[i][2]) :
                i \in {j \in 1..Len(call.arguments.pairs) :
                          /\ call.arguments.pairs[j][1] \in PathKeys
                          /\ IsString(call.arguments.pairs[j][2])}} : ~InWorkspace(p)}

\* C8: a path-guarded file tool given a path outside the workspace root
\* returns an error text and neither reads nor creates nor changes the file
\* at that path.
C8_OutsideWorkspaceRejected ==
    (lastOp.call.name \in PathGuarded /\ OutsidePaths(lastOp.call) # {})
        => /\ IsErrorText(lastOp.out)
           /\ \A p \in OutsidePaths(lastOp.call) :
                /\ Exists(fs, p) <=> Exists(lastOp.before, p)
                /\ Exists(fs, p) => fs[p] = lastOp.before[p]

\* the per-file match counts of the pattern under the path the arguments name
ExpectedReport(call, f) ==
    LET pattern == KeyVal(call, "pattern", Undef)
        root == Resolve(KeyVal(call, "path", "."))
    IN {<<q, MatchCount(pattern, f[q].data)>> :
            q \in {r \in Processed(f, root) : MatchCount(pattern, f[r].data) > 0}}

\* C9: a search_and_replace invocation with dry_run = true or without
\* dry_run changes no file and reports the match count of every file that
\* would change.
C9_DryRunChangesNothing ==
    (lastOp.call.name = "search_and_replace" /\ KeyVal(lastOp.call, "dry_run", JTrue) = JTrue)
        => /\ fs = lastOp.before
           /\ lastOp.report = ExpectedReport(lastOp.call, lastOp.before)

\* the names written in ALLOWED_TOOLS
ConfiguredNames == {allowedCsv[i] : i \in 1..Len(allowedCsv)} \ {","}

ListConfigured == allowedCsv # Unset /\ allowedCsv # <<>>

\* C10: with an allowed-tool list configured, on both endpoints no executor
\* of a tool outside the list is run and the tools offered by default are
\* in the list; without a list (unset or empty) every registered tool is
\* enabled and offered by default.
C10_OnlyAllowedToolsRun ==
    /\ ListConfigured =>
         /\ executed \subseteq ConfiguredNames
         /\ Range(avail) \subseteq ConfiguredNames
         /\ (completions >= 1 /\ reqTools = NullList) => Range(offered) \subseteq ConfiguredNames
    /\ ~ListConfigured =>
         /\ avail = TOOLS
         /\ (completions >= 1 /\ reqTools = NullList) => offered = TOOLS

\* under a configured list, on /v1/chat/completions with a caller-supplied
\* tools list, a listed tool was run and a registered tool outside the list
\* was requested and answered with the not-found result
C10_Witness ==
    /\ ListConfigured
    /\ endpoint = "v1"
    /\ reqTools = CallerTools
    /\ executed # {}
    /\ \E k \in (baseLen + 1)..Len(messages) :
         /\ messages[k].role = "tool"
         /\ messages[k].name \in Range(TOOLS) \ ConfiguredNames
         /\ messages[k].name \in Range(reqTools)
         /\ messages[k].content = <<"Error: Tool", messages[k].name, "not found.">>

\* C11: under every interleaving of browser tool calls at most one browser
\* instance is live at any time, and every invocation that was given a page
\* handle was given the page of the one browser launched since the last close.
C11_SingleBrowser ==
    /\ Cardinality(liveBrowsers) <= 1
    /\ \A i \in DOMAIN task :
         (task[i].pc = "page" /\ browserInstance # Null) => task[i].page = browserInstance

\* the invocations that return in the step
ReturnsNow(i) == task'[i].pc = "done" /\ (i \in DOMAIN task => task[i].pc # "done")

\* C12: when a browser_close invocation returns both handles are null; a
\* browser tool dispatched on an uninitialized session enters the launch, and
\* browser_close dispatched on an uninitialized session changes nothing.
C12_CloseResets ==
    [][\A i \in DOMAIN task' :
          /\ (task'[i].tool = "browser_close" /\ ReturnsNow(i))
                => (browserInstance' = Null /\ browserPage' = Null)
          /\ (i \notin DOMAIN task /\ browserInstance = Null /\ browserPage = Null)
                => IF task'[i].tool = "browser_close"
                   THEN task'[i].pc = "done" /\ UNCHANGED <<browserInstance, browserPage, liveBrowsers>>
                   ELSE task'[i].pc = "import"]_vars


\* the text contains a pattern of the tool's blacklist as it is written
ContainsBlacklisted(tool, text) ==
    \E pattern \in dangerousPatterns(tool) : Includes(CommandChars(text), pattern)

BlockedTexts ==
    {<<"Error: Command contains potentially dangerous pattern and was blocked.">>,
     <<"Error: Script contains potentially dangerous pattern and was blocked.">>}

\* C13: bash_command and bash_script given a text that contains a
\* blacklisted substring return the 'blocked' error without a subprocess
\* and without a temporary script file; "git status", with or without a
\* directory prefix, is executed.
C13_BlacklistBlocks ==
    sh # <<>> =>
        /\ ContainsBlacklisted(sh.tool, sh.command) =>
              /\ sh.pc = "done"
              /\ sh.out \in BlockedTexts
              /\ ~sh.spawned
              /\ ~sh.wrote
              /\ procs = {}
              /\ fs = InitFs
        /\ sh.command \in {"git status", "/usr/bin/git status"} => sh.spawned

\* a script that hides the pattern after other words was blocked
C13_Witness ==
    /\ sh # <<>>
    /\ sh.tool = "bash_script"
    /\ sh.command = "sudo rm -rf /tmp/ws"
    /\ sh.out \in BlockedTexts

\* C14: an invocation whose subprocess was still running when its timeout
\* expired returns the timeout text naming its seconds, and once it has
\* returned no process it started is running.
C14_TimeoutKills ==
    (sh # <<>> /\ sh.pc = "done" /\ sh.killed)
        => /\ sh.out = TimeoutText(sh.tool, sh.timeout)
           /\ procs = {}

\* the paths that match a sensitive pattern
SensitivePath(p) == \E pat \in WriteSensitive : PathIncludes(p, pat)

\* the contents the sensitive files hold at the start
SensitiveContent ==
    UNION {Range(InitFs[p].data) : p \in {q \in DOMAIN InitFs : IsFile(InitFs, q) /\ SensitivePath(q)}}
        \ UNION {Range(InitFs[p].data) : p \in {q \in DOMAIN InitFs : IsFile(InitFs, q) /\ ~SensitivePath(q)}}

\* C15: after any sequence of file tool invocations no tool result holds
\* content of a sensitive file, neither directly nor through a copy.
C15_NoSensitiveContentReturned ==
    Range(lastOp.out) \cap SensitiveContent = {}

\* C16: after any sequence of file tool invocations no file at a sensitive
\* path has been created, modified or removed.
C16_SensitiveFilesUntouched ==
    \A p \in DOMAIN fs \cup DOMAIN InitFs :
        SensitivePath(p) =>
            /\ Exists(fs, p) <=> Exists(InitFs, p)
            /\ Exists(fs, p) => fs[p] = InitFs[p]

\* C17: whatever the adapter, when the vendor's completion holds tool-call
\* requests the message handed to the orchestrator holds the same tool calls,
\* with their ids, names and arguments.
C17_ToolCallsSurfaced ==
    lastCompletion.vendor.tool_calls # <<>>
        => lastCompletion.message.tool_calls = lastCompletion.vendor.tool_calls

\* C18: during a /chat request every step leaves the transcript as it was or
\* appends to it, the steps of a completion call included.
C18_TranscriptAppendOnly ==
    [][endpoint = "chat" => IsPrefix(messages, messages')]_vars

\* the messages the loop appended to the transcript of the turn
AppendedInTurn ==
    LET first == IF messages # <<>> /\ messages[1].role = "system"
                 THEN baseLen + 1 ELSE baseLen
    IN SubSeq(messages, first, Len(messages))

\* C19: a /chat request that ended with an answer returns the text of the
\* completion without tool calls, and as updated_history the caller's
\* history, the user message, every assistant tool-call entry and tool result
\* of the turn's rounds, and the final assistant message, in that order.
C19_HistoryIsTranscript ==
    (pc = "done" /\ endpoint = "chat" /\ response.status = 200)
        => /\ response.text = lastCompletion.message.content
           /\ lastCompletion.message.tool_calls = <<>>
           /\ response.history = body.history \o <<Msg("user", <<body.message>>)>>
                                     \o AppendedInTurn
                                     \o <<Msg("assistant", response.text)>>

\* the response catch (e) sends
ProviderFaultResponse ==
    response.status = 500 /\ response.error # <<>> /\ response.error[1] = "LLM API error:"

\* C20: a request ends with the round-limit response exactly when the round
\* counter reached MAX_TOOL_CALLS, and with the 'LLM API error:' response
\* only when a completion call failed: never for a rejected invocation.
C20_ErrorsDistinguished ==
    /\ pc = "done" => (response = ExceededResponse <=> toolCallCount = MAX_TOOL_CALLS)
    /\ ProviderFaultResponse => \A i \in 1..Len(promises) : promises[i].state # "rejected"

\* the requests answered with status 200, in the order they were answered
Successes ==
    SelectSeq(log, LAMBDA i : reqs[i].response.status = 200)

\* C21: under every interleaving of /chat requests the conversation slot
\* holds the updated_history of the request that was answered successfully
\* last (so a request answered with an error leaves it as it was), and every
\* successful response carries the history of its own request.
C21_LastWriterWins ==
    /\ conversations = IF Successes = <<>> THEN <<>>
                       ELSE reqs[Successes[Len(Successes)]].response.history
    /\ \A i \in 1..Len(reqs) :
         reqs[i].response.status = 200 =>
             reqs[i].response.history =
                 reqs[i].body.history
                     \o <<Msg("user", <<reqs[i].body.message>>),
                          Msg("assistant", reqs[i].response.text)>>

\* two requests overlapped: the second received was answered first, both
\* successfully and with different histories, and the slot holds the first's
C21_Witness ==
    /\ log = <<2, 1>>
    /\ reqs[1].response.status = 200
    /\ reqs[2].response.status = 200
    /\ reqs[1].response.history # reqs[2].response.history
    /\ reqs[1].toolCallCount >= 1
    /\ conversations = reqs[1].response.history

\* C22: an invocation whose captured output is above the tool's cap returns
\* the output cut to the cap with the truncation marker, and no error result.
C22_TruncatesWithMarker ==
    \A i \in 1..Len(capture) :
        capture[i].total > capture[i].cap
            => /\ ~capture[i].error
               /\ capture[i].marker
               /\ capture[i].shown = capture[i].cap

\* the walks of the tools of a set
WalksOf(tools) == {i \in 1..Len(capture) : capture[i].tool \in tools}

\* C23: one invocation of a recursive tool visits or matches at most the
\* tool's hard cap of items, and its result holds the truncation notice
\* exactly when the cap left at least one item out.
C23_WalksCapped ==
    \A i \in WalksOf({"copy_file", "search_and_replace", "find_files", "search_code"}) :
        /\ capture[i].cap >= 0
        /\ capture[i].listed <= capture[i].cap
        /\ capture[i].notices >= 1 <=> capture[i].total > capture[i].listed

\* C30: explore_project lists at most 100 entries; its output holds the
\* truncation notice once when a non-ignored entry was left out and not at
\* all when none was.
C30_ExploreNotice ==
    \A i \in WalksOf({"explore_project"}) :
        /\ capture[i].listed <= maxItems
        /\ capture[i].total > capture[i].listed => capture[i].notices = 1
        /\ capture[i].total = capture[i].listed => capture[i].notices = 0

\* the last invocation is a delete_file whose path resolves to the root or
\* to a direct child of the root
RootLevelTarget ==
    /\ lastOp.call.name = "delete_file"
    /\ HasKey(lastOp.call, "path")
    /\ IsString(KeyVal(lastOp.call, "path", Undef))
    /\ Len(Resolve(KeyVal(lastOp.call, "path", Undef))) <= 1

RootLevelText == "Error: Cannot delete root-level path for safety."

Parameters(name) ==
    CASE name = "delete_file" -> <<"path", "confirm">>
      [] name = "write_file" -> <<"file_path", "content">>
      [] name = "read_file" -> <<"file_path", "max_lines">>
      [] name = "edit_file" -> <<"file_path", "old_text", "new_text">>
      [] name = "copy_file" -> <<"source", "destination">>
      [] name = "move_file" -> <<"source", "destination">>
      [] name = "search_and_replace" ->
           <<"pattern", "replacement", "path", "file_pattern", "dry_run">>
      [] OTHER -> <<>>

\* C25: whatever the order of the keys and whichever optional keys are
\* left out, the executor's j-th parameter receives the value written under
\* the j-th key of the tool's schema, or nothing (so that its default
\* applies) when that key is absent.
C25_ValuesReachDeclaredParameters ==
    (lastOp.n > 0 /\ lastOp.call.arguments.ok)
        => \A j \in 1..Len(Parameters(lastOp.call.name)) :
               Arg(ObjectValues(lastOp.call.arguments.pairs), j)
                   = KeyVal(lastOp.call, Parameters(lastOp.call.name)[j], Undef)

\* the call with the value under dry_run replaced by v
WithDryRun(call, v) ==
    [call EXCEPT !.arguments.pairs =
        [i \in 1..Len(@) |-> IF @[i][1] = "dry_run" THEN <<"dry_run", v>> ELSE @[i]]]

\* the files whose content differs between two filesystems
ChangedFiles(f, g) == {q \in DOMAIN f \cup DOMAIN g : ~(q \in DOMAIN f /\ q \in DOMAIN g /\ f[q] = g[q])}

\* C26: for a search_and_replace invocation that carries dry_run, the
\* per-file counts (and so the total) reported with dry_run = true equal
\* those reported with dry_run = false on the same tree, and the files the
\* real pass changes are the files the dry run lists.
C26_DryRunPredictsRealPass ==
    (lastOp.call.name = "search_and_replace" /\ lastOp.call.arguments.ok
        /\ HasKey(lastOp.call, "dry_run"))
        => /\ RunToolCall(avail, WithDryRun(lastOp.call, JTrue), lastOp.before).report
                = RunToolCall(avail, WithDryRun(lastOp.call, JFalse), lastOp.before).report
           /\ ChangedFiles(lastOp.before,
                           RunToolCall(avail, WithDryRun(lastOp.call, JFalse), lastOp.before).f)
                = {e[1] : e \in RunToolCall(avail, WithDryRun(lastOp.call, JTrue),
                                             lastOp.before).report}

\* C27: every bash_script invocation executes the script content it was
\* given, and while an invocation has not finished executing its temporary
\* file is there with that content: no other invocation overwrote or
\* removed it.
C27_OwnScriptOnly ==
    \A i \in 1..Len(scripts) :
        /\ scripts[i].pc \in {"running", "done"} => scripts[i].ran = <<scripts[i].content>>
        /\ scripts[i].pc \in {"spawned", "running"}
             => /\ IsFile(fs, scripts[i].path)
                /\ fs[scripts[i].path].data = <<scripts[i].content>>

\* a launch is in progress: an invocation is between chromium.launch and
\* the return of newPage
Launching == \E i \in DOMAIN task : task[i].pc \in {"launch", "newPage"}

\* C28: every invocation that _getBrowser returned to without an error text
\* holds a page handle, and whenever the browser handle is set and no launch
\* is in progress the page handle is set too.
C28_PageOrError ==
    /\ \A i \in DOMAIN task : task[i].pc = "page" => task[i].page # Null
    /\ (browserInstance # Null /\ ~Launching) => browserPage # Null

\* the round being joined executed a tool
RoundExecuted == \E i \in 1..Len(calls) : Runs(avail, calls[i])

\* C29: a /chat request never ends straight from the join of a round that
\* executed a tool: the results of every executed round are in the messages
\* of a completion call made after it.
C29_ResultsReachCompletion ==
    [][(endpoint = "chat" /\ pc = "join" /\ RoundExecuted) => pc' # "done"]_vars

====
